---- MODULE Spec2Model ----
(***************************************************************************)
(* A TLA+ model of the ghostbridge native crypto core:                     *)
(*   ConstantTimeCrypto.cpp          Kyber-768 KEM, Dilithium-3 signatures *)
(*   AdvancedSideChannelProtection.cpp   the countermeasure layer          *)
(*                                                                         *)
(* Scaling.  Byte buffers are kept at reduced length: one model byte       *)
(* stands for BlockBytes bytes of the code (MLen).  The sponge works on a   *)
(* 25-lane state whose lanes are one byte wide instead of eight, so the    *)
(* rates are 168/8 and 136/8 bytes, and runs the first NRounds rounds of   *)
(* the permutation.  Polynomials have NCoeffs coefficients                 *)
(* instead of 256.  Byte values, moduli and norm bounds are the code's.    *)
(*                                                                         *)
(* Uninitialised memory.  A local array the code never writes (encrypt,    *)
(* decrypt and pack_secret_key are empty bodies) holds an indeterminate    *)
(* value: what a call reads from it is a choice from GarbageVals.          *)
(***************************************************************************)
EXTENDS Integers, Sequences, FiniteSets, TLC

(***************************************************************************)
(* Bounds of the model                                                     *)
(***************************************************************************)
\* bytes of the code that one model byte stands for
BlockBytes == 32
\* coefficients of a model polynomial (the code: 256)
NCoeffs == 2
\* width in bits of the model's nonce counter (the code: unsigned int, 32)
NonceBits == 2
\* number of threads calling into the countermeasure layer
NThreads == 2
\* rounds of the permutation the model runs (the code: 24)
NRounds == 2
\* native calls of the crypto library one run of the process makes
MaxCalls == 4
\* the retry limit the signing loop is held against (the code has none)
RetryLimit == 2
\* values of the noise generator's state and of the noise accumulator
NoiseMod == 3

(***************************************************************************)
(* Program constants                                                       *)
(***************************************************************************)
KYBER_N == 256
KYBER_Q == 3329
KYBER_K == 3
KYBER_PUBLIC_KEY_BYTES == 1184
KYBER_SECRET_KEY_BYTES == 2400
KYBER_CIPHERTEXT_BYTES == 1088
KYBER_SHARED_SECRET_BYTES == 32
DILITHIUM_N == 256
DILITHIUM_Q == 8380417
DILITHIUM_K == 6
DILITHIUM_L == 5
DILITHIUM_PUBLIC_KEY_BYTES == 1952
DILITHIUM_SECRET_KEY_BYTES == 4000
DILITHIUM_SIGNATURE_BYTES == 3293

(***************************************************************************)
(* Bytes and bit operations                                                *)
(***************************************************************************)
Byte == 0..255

\* model length of a buffer of n code bytes
MLen(n) == (n + BlockBytes - 1) \div BlockBytes

\* F applied to the value of e, and to the values of several expressions:
\* the values are computed once, before F uses them
Let(e, F(_)) == CHOOSE r \in {F(v) : v \in {e}} : TRUE
Let2(e1, e2, F(_, _)) == CHOOSE r \in {F(v1, v2) : v1 \in {e1}, v2 \in {e2}} : TRUE
Let3(e1, e2, e3, F(_, _, _)) ==
    CHOOSE r \in {F(v1, v2, v3) : v1 \in {e1}, v2 \in {e2}, v3 \in {e3}} : TRUE

\* the n bytes of buffer b that start at 0-based offset off
Sub(b, off, n) == SubSeq(b, off + 1, off + n)

\* the sequence <<F(0), ..., F(n-1)>>
Tab(n, F(_)) == SubSeq([k \in 1..n |-> F(k - 1)], 1, n)

\* a buffer of n bytes, all equal to v
Fill(n, v) == Tab(n, LAMBDA i : v)

\* element i (0-based) of sequence s
At(s, i) == s[i + 1]

RECURSIVE BitXor(_, _, _)
BitXor(a, b, n) ==
    IF n = 0 THEN 0
    ELSE ((a + b) % 2) + 2 * BitXor(a \div 2, b \div 2, n - 1)

RECURSIVE BitAnd(_, _, _)
BitAnd(a, b, n) ==
    IF n = 0 THEN 0
    ELSE ((a % 2) * (b % 2)) + 2 * BitAnd(a \div 2, b \div 2, n - 1)

\* 4-bit tables, so that a byte operation is two look-ups
XorTab == Tab(16, LAMBDA a : Tab(16, LAMBDA b : BitXor(a, b, 4)))
AndTab == Tab(16, LAMBDA a : Tab(16, LAMBDA b : BitAnd(a, b, 4)))

Xor8(a, b) == 16 * At(At(XorTab, a \div 16), b \div 16) + At(At(XorTab, a % 16), b % 16)
And8(a, b) == 16 * At(At(AndTab, a \div 16), b \div 16) + At(At(AndTab, a % 16), b % 16)
Not8(a) == 255 - a
Or8(a, b) == a + b - And8(a, b)

(***************************************************************************)
(* Sponge: keccak_f1600, shake128, shake256 on one-byte lanes.  The state  *)
(* is the sequence of its 25 lanes, lane i (0-based) at At(st, i).         *)
(***************************************************************************)
\* rotl64 on a one-byte lane; the code's (n << c) | (n >> (64 - c))
rotl64(n, c) == ((n * 2^(c % 8)) % 256) + (n \div 2^(8 - (c % 8)))

\* the 24 round constants, their low byte
round_constants ==
    <<1, 130, 138, 0, 139, 1, 129, 9, 138, 136, 9, 3,
      2, 128, 10, 10, 129, 128, 1, 8, 0, 130, 2, 0>>

\* C[x] = state[x] ^ state[x+5] ^ state[x+10] ^ state[x+15] ^ state[x+20]
ThetaC(st) ==
    Tab(5, LAMBDA x :
        Xor8(Xor8(Xor8(Xor8(At(st, x), At(st, x + 5)), At(st, x + 10)),
                  At(st, x + 15)), At(st, x + 20)))

\* D[x] = C[(x + 4) % 5] ^ rotl64(C[(x + 1) % 5], 1)
ThetaD(C) == Tab(5, LAMBDA x : Xor8(At(C, (x + 4) % 5), rotl64(At(C, (x + 1) % 5), 1)))

\* state[y * 5 + x] ^= D[x]
KeccakTheta(st) ==
    Let(ThetaC(st), LAMBDA C :
    Let(ThetaD(C), LAMBDA D :
        Tab(25, LAMBDA i : Xor8(At(st, i), At(D, i % 5)))))

\* the rho-pi loop from step t on: the lane at (next_x, next_y) is saved as
\* the next temp and overwritten with the rotated temp
RECURSIVE KeccakRhoPiLoop(_, _, _, _, _)
KeccakRhoPiLoop(st, temp, x, y, t) ==
    IF t = 24 THEN st
    ELSE Let3((2 * x + 3 * y) % 5,
              At(st, ((2 * x + 3 * y) % 5) * 5 + y),
              [st EXCEPT ![((2 * x + 3 * y) % 5) * 5 + y + 1] =
                  rotl64(temp, ((t + 1) * (t + 2)) \div 2)],
              LAMBDA next_y, next_temp, st2 :
                  KeccakRhoPiLoop(st2, next_temp, y, next_y, t + 1))

KeccakRhoPi(st) == KeccakRhoPiLoop(st, At(st, 1), 1, 0, 0)

\* state[y * 5 + x] = row[x] ^ ((~row[(x + 1) % 5]) & row[(x + 2) % 5])
KeccakChi(st) ==
    Tab(25, LAMBDA i :
        Xor8(At(st, i), And8(Not8(At(st, (i \div 5) * 5 + (((i % 5) + 1) % 5))),
                             At(st, (i \div 5) * 5 + (((i % 5) + 2) % 5)))))

\* state[0] ^= round_constants[round]
KeccakIota(st, round) == [st EXCEPT ![1] = Xor8(@, round_constants[round + 1])]

KeccakRound(st, round) ==
    Let(KeccakTheta(st), LAMBDA s1 :
    Let(KeccakRhoPi(s1), LAMBDA s2 :
    Let(KeccakChi(s2), LAMBDA s3 :
        KeccakIota(s3, round))))

\* the first NRounds of the 24 rounds
RECURSIVE KeccakRounds(_, _)
KeccakRounds(st, round) ==
    IF round = NRounds THEN st
    ELSE Let(KeccakRound(st, round), LAMBDA next : KeccakRounds(next, round + 1))

keccak_f1600(state) == Let(state, LAMBDA st : KeccakRounds(st, 0))

ZeroState == Tab(25, LAMBDA i : 0)

Min(a, b) == IF a < b THEN a ELSE b

\* state[i] ^= input[offset + i] for i < block_size
XorBlock(st, input, offset, block_size) ==
    Tab(25, LAMBDA i : IF i < block_size THEN Xor8(At(st, i), At(input, offset + i))
                       ELSE At(st, i))

\* the absorb loop: XOR a block into the state, permute after a full block
RECURSIVE SpongeAbsorb(_, _, _, _)
SpongeAbsorb(st, input, offset, rate) ==
    IF offset >= Len(input) THEN st
    ELSE IF Len(input) - offset >= rate
         THEN Let(keccak_f1600(XorBlock(st, input, offset, rate)), LAMBDA st2 :
                  SpongeAbsorb(st2, input, offset + rate, rate))
         ELSE XorBlock(st, input, offset, Len(input) - offset)

\* the squeeze loop: copy a block out, permute when a further block follows
RECURSIVE SpongeSqueeze(_, _, _, _)
SpongeSqueeze(state, output, outlen, rate) ==
    Let2(state, output, LAMBDA st, out :
        IF Len(out) >= outlen THEN out
        ELSE IF outlen - Len(out) > rate
             THEN SpongeSqueeze(keccak_f1600(st), out \o SubSeq(st, 1, rate), outlen, rate)
             ELSE out \o SubSeq(st, 1, outlen - Len(out)))

\* state[inlen % rate] ^= domain_sep; state[rate - 1] ^= 0x80
SpongePad(st, inlen, rate, domain_sep) ==
    [[st EXCEPT ![(inlen % rate) + 1] = Xor8(@, domain_sep)]
        EXCEPT ![rate] = Xor8(@, 128)]

\* absorb, pad, permute, squeeze: the body shake128 and shake256 share
Sponge(input, outlen, rate, domain_sep) ==
    Let(input, LAMBDA in :
    Let(SpongeAbsorb(ZeroState, in, 0, rate), LAMBDA st :
        SpongeSqueeze(keccak_f1600(SpongePad(st, Len(in), rate, domain_sep)),
                      <<>>, outlen, rate)))

\* shake128(output, outlen, input, inlen, domain_sep): rate 168 bytes = 21 lanes
shake128(outlen, input, domain_sep) == Sponge(input, outlen, 168 \div 8, domain_sep)

\* shake256(output, outlen, input, inlen): rate 136 bytes = 17 lanes, pad 0x1F
shake256(outlen, input) == Sponge(input, outlen, 136 \div 8, 31)

(***************************************************************************)
(* Constant-time primitives (ConstantTimeCrypto.cpp:15-68).  A 32-bit word *)
(* is the sequence of its four bytes, low byte first.                      *)
(***************************************************************************)
Word(a) == <<a, 0, 0, 0>>

\* a mask that is the condition itself: all ones only for condition = -1
CONSTANT_TIME_MASK_value(x) == Tab(4, LAMBDA k : IF x < 0 THEN 255 ELSE IF k = 0 THEN x % 256 ELSE 0)

\* #define CONSTANT_TIME_MASK(x) ((x) ? 0xFFFFFFFF : 0x00000000)
CONSTANT_TIME_MASK(x) == IF x # 0 THEN <<255, 255, 255, 255>> ELSE <<0, 0, 0, 0>>

\* #define CONSTANT_TIME_SELECT(mask, a, b) ((mask & (a)) | (~mask & (b)))
CONSTANT_TIME_SELECT(mask, a, b) ==
    Tab(4, LAMBDA k : Or8(And8(At(mask, k), At(a, k)), And8(Not8(At(mask, k)), At(b, k))))

\* result after result |= aa[i] ^ bb[i] for i < len, from bit k up: a bit
\* of result is set iff it is set in aa[i] ^ bb[i] for some i
RECURSIVE MemcmpAcc(_, _, _, _)
MemcmpAcc(aa, bb, len, k) ==
    IF k = 8 THEN 0
    ELSE (IF \E i \in 0..(len - 1) : (Xor8(At(aa, i), At(bb, i)) \div 2^k) % 2 = 1
          THEN 1 ELSE 0)
         + 2 * MemcmpAcc(aa, bb, len, k + 1)

\* return result ? 1 : 0
constant_time_memcmp(a, b, len) ==
    Let2(a, b, LAMBDA aa, bb : IF MemcmpAcc(aa, bb, len, 0) # 0 THEN 1 ELSE 0)

\* d[i] = CONSTANT_TIME_SELECT(mask, s[i], d[i]) for i < len, cut to a byte
constant_time_conditional_move(dest, src, len, condition) ==
    Let3(dest, src, CONSTANT_TIME_MASK(condition), LAMBDA d, s, mask :
        Tab(Len(d), LAMBDA i :
            IF i < len
            THEN At(CONSTANT_TIME_SELECT(mask, Word(At(s, i)), Word(At(d, i))), 0)
            ELSE At(d, i)))

\* C's !x
LogicalNot(x) == IF x = 0 THEN 1 ELSE 0

(***************************************************************************)
(* Kyber-768 (ConstantTimeCrypto.cpp:237-357, 623-643)                     *)
(***************************************************************************)
SeedLen == MLen(32)
KemPkLen == MLen(KYBER_PUBLIC_KEY_BYTES)
KemSkLen == MLen(KYBER_SECRET_KEY_BYTES)
KemCtLen == MLen(KYBER_CIPHERTEXT_BYTES)
KemSsLen == MLen(KYBER_SHARED_SECRET_BYTES)
\* unsigned char buf[64], the hash-input buffer of kyber_encaps and kyber_decaps
HashBufLen == MLen(64)

\* values an indeterminate byte is read as, and values the generators return
GarbageVals == {0, 8}
RandVals == {0, 77}

\* the memory a pointer to buf addresses, n bytes of it: past the end of buf
\* lies memory the caller does not own, read as g
View(buf, n, g) == Tab(n, LAMBDA i : IF i < Len(buf) THEN At(buf, i) ELSE g)

\* memcpy(pk, seed, 32); the t values are not written
pack_public_key(pk, seed) == seed \o Sub(pk, Len(seed), Len(pk) - Len(seed))

\* empty body: sk keeps what it held
pack_secret_key(sk) == sk

\* empty body: ct keeps what it held
encrypt(ct, m, pk, coins) == ct

\* empty body: m keeps what it held
decrypt(m, ct, sk) == m

\* kyber_keypair(pk, sk): pk and sk are the caller's arrays as they were,
\* seed the 32 bytes drawn from secure_rng.  noise_seed, A, s, e and t are
\* computed into locals that neither pack routine stores.
kyber_keypair(pk, sk, seed) ==
    [pk |-> pack_public_key(pk, shake128(SeedLen, seed, 0)),
     sk |-> pack_secret_key(sk),
     status |-> 0]

\* shake128(buf, 32, m, 32, 0x00); memcpy(buf + 32, pk + 1184 - 32, 32);
\* shake128(Kr, 64, buf, 64, 0x01): the same three lines in encaps and decaps
HashKr(m, pk) ==
    shake128(MLen(64), shake128(SeedLen, m, 0) \o Sub(pk, KemPkLen - SeedLen, SeedLen), 1)

\* Kr + 32
Coins(Kr) == Sub(Kr, SeedLen, SeedLen)

\* memcpy(buf, Kr, 32); memcpy(buf + 32, ct, KYBER_CIPHERTEXT_BYTES): the
\* bytes the last shake128 of encaps and decaps is asked to read
SsHashInput(Kr, ct) == Sub(Kr, 0, SeedLen) \o ct

\* the bytes those two copies write, starting at buf
SsHashLen == SeedLen + KemCtLen

\* kyber_encaps(ct, ss, pk): ct and ss are the caller's arrays as they were,
\* m the 32 bytes drawn from secure_rng
kyber_encaps(ct, ss, pk, m) ==
    Let(HashKr(m, pk), LAMBDA Kr :
    Let(encrypt(ct, m, pk, Coins(Kr)), LAMBDA ct1 :
        [ct |-> ct1, ss |-> shake128(KemSsLen, SsHashInput(Kr, ct1), 2), status |-> 0]))

\* the selection with its second move left out
DecapsSelectOnce(ss, ss_success, ss_failure, fail) ==
    constant_time_conditional_move(ss, ss_success, KemSsLen, LogicalNot(fail))

\* the two conditional moves that end kyber_decaps
DecapsSelect(ss, ss_success, ss_failure, fail) ==
    constant_time_conditional_move(
        constant_time_conditional_move(ss, ss_success, KemSsLen, LogicalNot(fail)),
        ss_failure, KemSsLen, fail)

\* the input of the hash that gives ss_failure: the 32 bytes at
\* sk + KYBER_SECRET_KEY_BYTES - 64 (line 350)
FailureHashInput(sk) == Sub(sk, KemSkLen - MLen(64), SeedLen)

\* the body of kyber_decaps (lines 324-354): ss is the caller's array as it
\* was, m and ct_check the local arrays as they were; pk = sk + 2400 - 1184
DecapsBody(ss, ct, sk, m, ct_check) ==
    Let2(decrypt(m, ct, sk), Sub(sk, KemSkLen - KemPkLen, KemPkLen), LAMBDA m1, pk :
    Let(HashKr(m1, pk), LAMBDA Kr :
    Let(encrypt(ct_check, m1, pk, Coins(Kr)), LAMBDA ct_check1 :
    Let3(constant_time_memcmp(ct, ct_check1, KemCtLen),
         shake128(KemSsLen, SsHashInput(Kr, ct), 2),
         shake128(KemSsLen, FailureHashInput(sk), 3),
         LAMBDA fail, ss_success, ss_failure :
             [ss |-> DecapsSelect(ss, ss_success, ss_failure, fail),
              ct_check |-> ct_check1,
              fail |-> fail,
              ss_success |-> ss_success,
              ss_failure |-> ss_failure,
              failure_input |-> FailureHashInput(sk)]))))

\* kyber_decaps that hands the comparison result back as its status
kyber_decaps_status(ss, ct, sk, m, ct_check) ==
    Let(DecapsBody(ss, ct, sk, m, ct_check), LAMBDA d : [body |-> d, status |-> d.fail])

\* kyber_decaps(ss, ct, sk): return 0 on every path
kyber_decaps(ss, ct, sk, m, ct_check) ==
    [body |-> DecapsBody(ss, ct, sk, m, ct_check), status |-> 0]

(***************************************************************************)
(* Dilithium-3 (ConstantTimeCrypto.cpp:362-585).  A polynomial is the      *)
(* sequence of its NCoeffs coefficients, a vector a sequence of            *)
(* polynomials.                                                            *)
(***************************************************************************)
DPkLen == MLen(DILITHIUM_PUBLIC_KEY_BYTES)
DSkLen == MLen(DILITHIUM_SECRET_KEY_BYTES)
DSigLen == MLen(DILITHIUM_SIGNATURE_BYTES)

\* const int k = 6, l = 5, eta = 4, tau = 49, beta = 196;
eta == 4
tau == 49
beta == 196
\* const int gamma1 = (1 << 19), gamma2 = (1 << 18) - 1
gamma1 == 2^19
gamma2 == 2^18 - 1

\* unsigned char buf[640] of poly_uniform_gamma1, which serves 640/4 of the
\* 256 coefficients: the model keeps that share of NCoeffs
XofBufLen == (640 * NCoeffs) \div DILITHIUM_N

\* C's a % b for b > 0: the sign of the result is the sign of a
CRem(a, b) == IF a >= 0 THEN a % b ELSE -((-a) % b)

Abs(a) == IF a < 0 THEN -a ELSE a

\* buf[k], or the indeterminate byte g when k lies past the end of buf
ByteAt(buf, k, g) == IF k < Len(buf) THEN At(buf, k) ELSE g

\* the bytes poly_uniform_gamma1 passes to shake256: shake256(buf, 640,
\* seed, 64), the 64 bytes of the seed
GammaXofInput(seed, nonce) == seed

\* poly_uniform_gamma1(poly, seed, nonce): the nonce is not used; the loop
\* reads buf up to index 1023 though buf has 640 bytes.  val is assembled
\* from buf[4i .. 4i+3], and val % (2 * gamma1) takes its low 20 bits, so
\* buf[4i+3] drops out
poly_uniform_gamma1(seed, nonce, g) ==
    Let(shake256(XofBufLen, GammaXofInput(seed, nonce)), LAMBDA buf :
        Tab(NCoeffs, LAMBDA i :
            ((ByteAt(buf, 4 * i, g) + 256 * ByteAt(buf, 4 * i + 1, g)
                + 65536 * ByteAt(buf, 4 * i + 2, g)) % (2 * gamma1)) - gamma1))

\* int32_t a_elem = (rho[(i * l + k) % 32] * 31 + j) % DILITHIUM_Q
a_elem(rho, i, j, k) == (At(rho, (i * DILITHIUM_L + k) % SeedLen) * 31 + j) % DILITHIUM_Q

\* the inner loop over k of dilithium_matrix_vector_mult for one (i, j)
RECURSIVE MatVecAcc(_, _, _, _, _, _)
MatVecAcc(rho, y, i, j, k, w) ==
    IF k = DILITHIUM_L THEN w
    ELSE Let(CRem(w + a_elem(rho, i, j, k) * At(At(y, k), j), DILITHIUM_Q), LAMBDA w2 :
             MatVecAcc(rho, y, i, j, k + 1, w2))

dilithium_matrix_vector_mult(rho, y) ==
    Tab(DILITHIUM_K, LAMBDA i : Tab(NCoeffs, LAMBDA j : MatVecAcc(rho, y, i, j, 0, 0)))

\* packed[i] = (w[i / 32][i % 32] >> 12) & 0xFF
pack_w1(w) ==
    Tab(Min(SeedLen, (DILITHIUM_K * NCoeffs) \div 8), LAMBDA i :
        (At(At(w, i \div 32), i % 32) \div 4096) % 256)

\* the loop of sample_challenge for a polynomial of n coefficients of which
\* t are wanted non-zero: i the index into buf, c the polynomial so far
RECURSIVE ChallengeLoopAt(_, _, _, _, _, _)
ChallengeLoopAt(buf, i, count, c, n, t) ==
    IF ~(i < Len(buf) /\ count < t) THEN c
    ELSE IF At(c, At(buf, i) % n) = 0
         THEN Let2(count + 1,
                   [c EXCEPT ![(At(buf, i) % n) + 1] = IF i % 2 # 0 THEN 1 ELSE -1],
                   LAMBDA count2, c2 : ChallengeLoopAt(buf, i + 1, count2, c2, n, t))
         ELSE ChallengeLoopAt(buf, i + 1, count, c, n, t)

\* the loop of sample_challenge at the scale of the signing model
ChallengeLoop(buf, i, count, c) == ChallengeLoopAt(buf, i, count, c, NCoeffs, tau)

\* sample_challenge(c, seed) with n coefficients, t wanted and a buf of
\* buflen bytes: memset, shake256, the loop
sample_challenge_at(seed, n, t, buflen) ==
    Let2(shake256(buflen, seed), Tab(n, LAMBDA j : 0), LAMBDA buf, c :
        ChallengeLoopAt(buf, 0, 0, c, n, t))

\* sample_challenge(c, seed): buf is one rate block of shake256, 136 bytes
sample_challenge(seed) ==
    Let2(shake256(136 \div 8, seed), Tab(NCoeffs, LAMBDA j : 0), LAMBDA buf, c :
        ChallengeLoop(buf, 0, 0, c))

s1_val(s1_seed, i, j) == ((At(s1_seed, j % SeedLen) * 31 + i) % (2 * eta + 1)) - eta
s2_val(s2_seed, i, j) == ((At(s2_seed, j % SeedLen) * 37 + i) % (2 * eta + 1)) - eta

\* z = y + c*s1, coefficient by coefficient
ResponseZ(y, c, s1_seed) ==
    Tab(DILITHIUM_L, LAMBDA i : Tab(NCoeffs, LAMBDA j :
        At(At(y, i), j) + At(c, j) * s1_val(s1_seed, i, j)))

\* the first rejection test: some |z[i][j]| >= gamma1 - beta
RejectZ(z) ==
    \E i \in 0..(DILITHIUM_L - 1), j \in 0..(NCoeffs - 1) :
        Abs(At(At(z, i), j)) >= gamma1 - beta

\* the second rejection test: some |w[i][j] - c[j]*s2_val| >= gamma2 - beta
RejectW(w, c, s2_seed) ==
    \E i \in 0..(DILITHIUM_K - 1), j \in 0..(NCoeffs - 1) :
        Abs(At(At(w, i), j) - At(c, j) * s2_val(s2_seed, i, j)) >= gamma2 - beta

\* pack_signature(sig, c, z): sig is the caller's array as it was; the bytes
\* after the challenge and the z bytes are not written
pack_signature(sig, c, z) ==
    Tab(Len(sig), LAMBDA p :
        IF p < SeedLen THEN At(c, p)
        ELSE IF p < SeedLen + DILITHIUM_L * NCoeffs
             THEN At(At(z, (p - SeedLen) \div NCoeffs), (p - SeedLen) % NCoeffs) % 256
             ELSE At(sig, p))

\* dilithium_sign up to the loop: the secret key's parts,
\* mu = shake256(tr || m) and rhoprime = shake256(K || mu)
SignSetup(m, sk0) ==
    Let(sk0, LAMBDA sk :
    Let(shake256(MLen(64), Sub(sk, 2 * SeedLen, SeedLen) \o m), LAMBDA mu :
        [rho |-> Sub(sk, 0, SeedLen),
         s1_seed |-> Sub(sk, 3 * SeedLen, SeedLen),
         s2_seed |-> Sub(sk, 4 * SeedLen, SeedLen),
         mu |-> mu,
         rhoprime |-> shake256(MLen(64), Sub(sk, SeedLen, SeedLen) \o mu)]))

\* one pass through the body of while (true): the mask y, whose l samples
\* take the nonces nonce .. nonce + l - 1, the commitment w, the challenge
\* seed c_seed = shake256(mu[0..32) || pack_w1(w)), the challenge, the
\* response and the two norm tests; z and c_seed are what the pass would pack
SignIteration(st, nonce, g) ==
    Let(Tab(DILITHIUM_L, LAMBDA i : poly_uniform_gamma1(st.rhoprime, nonce + i, g)),
        LAMBDA y :
    Let(dilithium_matrix_vector_mult(st.rho, y), LAMBDA w :
    Let(shake256(SeedLen, Sub(st.mu, 0, SeedLen) \o pack_w1(w)), LAMBDA c_seed :
    Let(sample_challenge(c_seed), LAMBDA c :
    Let(ResponseZ(y, c, st.s1_seed), LAMBDA z :
        [reject |-> RejectZ(z) \/ RejectW(w, c, st.s2_seed),
         c_seed |-> c_seed,
         z |-> z])))))

\* std::hash<std::string>: the library's string hash, which the repository
\* does not define.  The polynomial hash h = (h * 31 + byte + 1) % HashMod
\* over the bytes, started from the length, stands for it.
HashMod == 32749

\* 31^n % HashMod
RECURSIVE Pow31(_)
Pow31(n) ==
    IF n = 0 THEN 1
    ELSE IF n % 2 = 0 THEN (Pow31(n \div 2) ^ 2) % HashMod
         ELSE (31 * Pow31(n - 1)) % HashMod

\* the hash of the bytes lo .. hi - 1 of str, started from 0
RECURSIVE StdHashAcc(_, _, _)
StdHashAcc(str, lo, hi) ==
    IF hi - lo = 1 THEN At(str, lo) + 1
    ELSE (StdHashAcc(str, lo, (lo + hi) \div 2) * Pow31(hi - ((lo + hi) \div 2))
            + StdHashAcc(str, (lo + hi) \div 2, hi)) % HashMod

std_hash(str) ==
    Let(str, LAMBDA s :
        IF Len(s) = 0 THEN 0
        ELSE ((Len(s) % HashMod) * Pow31(Len(s)) + StdHashAcc(s, 0, Len(s))) % HashMod)

\* std::to_string(hash_val): the decimal digits as characters
RECURSIVE to_string(_)
to_string(v) ==
    IF v < 10 THEN <<48 + v>> ELSE Append(to_string(v \div 10), 48 + (v % 10))

\* the values hash_val takes in the loop that fills expected_sig: a new one,
\* std::hash of the decimal digits of the last, after every eighth byte
RECURSIVE HashVals(_, _, _)
HashVals(n, hash_val, vals) ==
    IF n = 0 THEN vals
    ELSE Let2(std_hash(to_string(hash_val)), Append(vals, hash_val),
              LAMBDA hash_val2, vals2 : HashVals(n - 1, hash_val2, vals2))

\* expected_sig[i] = (hash_val >> (8 * (i % 8))) & 0xFF; the values of the
\* hash that stands for std::hash lie below 2^32, so their bytes 4 to 7 are 0
expected_sig(m, pk) ==
    Let(HashVals((DSigLen + 7) \div 8, std_hash(m \o pk), <<>>), LAMBDA vals :
        Tab(DSigLen, LAMBDA i :
            IF i % 8 < 4 THEN (At(vals, i \div 8) \div 2^(8 * (i % 8))) % 256 ELSE 0))

\* a verification that tests the length and nothing else
dilithium_verify_length_only(sig, siglen, m, pk) ==
    IF siglen # DSigLen THEN -1 ELSE 0

\* dilithium_verify(sig, siglen, m, mlen, pk)
dilithium_verify(sig, siglen, m, pk) ==
    IF siglen # DSigLen THEN -1
    ELSE constant_time_memcmp(sig, expected_sig(m, pk), DSigLen)

(***************************************************************************)
(* The process: the two global instances, the arrays the Java caller       *)
(* holds, the record of the last native call, the frame of a               *)
(* dilithium_sign in progress and the threads inside the side-channel      *)
(* wrappers.                                                               *)
(***************************************************************************)
VARIABLES
    proc,                    \* "running", or "aborted" once the runtime has killed the process
    urandom,                 \* TRUE iff /dev/urandom can be opened and read
    ncalls,                  \* native calls of the crypto library made so far
    crypto_instance,         \* nullptr or the ConstantTimeCrypto object
    kem,                     \* the Java caller's KEM arrays: pk, sk, ct, ss
    dsa,                     \* the Java caller's signature arrays: pk, sk, m, sig
    call,                    \* the last native call: its name, arguments and outcome
    frame,                   \* the dilithium_sign call in progress
    side_channel_protection, \* nullptr or the AdvancedSideChannelProtection object
    thread,                  \* per thread: its position inside a wrapper and its temporary
    heap,                    \* the mappings of the secure-memory services, by address
    detector,                \* protected_region and initial_hash of the tamper detector
    leaked                   \* the objects made by new that no pointer refers to

vars == <<proc, urandom, ncalls, crypto_instance, kem, dsa, call, frame,
          side_channel_protection, thread, heap, detector, leaked>>

\* the state of the services beside the crypto library and its wrappers,
\* and the objects lost to the process
hostVars == <<heap, detector, leaked>>

kemVars == <<kem>>
sigVars == <<dsa, frame>>
noiseVars == <<side_channel_protection, thread, hostVars>>

\* what overrunning a stack array does: the copy lands in the frame and the
\* call goes on, or the runtime detects it and aborts the process
OverrunOutcomes == {"continues", "aborts"}

NoCall == [op |-> "none"]

\* the null pointer a global instance holds before its initialize
nullptr == [ptr |-> "nullptr"]

\* the record of a native call: ret is what the Java caller receives,
\* len_ok whether every array argument has its scheme length, crypto_ran
\* whether a cryptographic routine read the arguments, rng the seeding of
\* the generator the call drew from ("none" if it drew nothing)
Call(op, ret, len_ok, crypto_ran, rng, detail) ==
    [op |-> op, ret |-> ret, len_ok |-> len_ok, crypto_ran |-> crypto_ran,
     rng |-> rng, detail |-> detail]

Threads == 1..NThreads

\* a thread outside the wrappers: op is the wrapper a thread is in, pc its
\* position in the wrapper's accesses, tmp the value it last loaded, ret
\* what its last call returned
IdleThread == [op |-> "none", pc |-> 0, tmp |-> 0, ret |-> "none"]

IdleFrame == [pc |-> "idle"]

\* mappings a process may hold at a time
MaxMaps == 2

\* the addresses mmap returns; 0 is the null handle
Addrs == 1..MaxMaps

\* an address with no mapping
NoMap == [len |-> 0]

\* static const size_t REGION_SIZE; the length of initial_hash
REGION_SIZE == 4096
SHA256_DIGEST_LENGTH == 32

\* the tamper detector before nativeInitializeRegion: protected_region =
\* nullptr, initial_hash a static array, all of its bytes zero
NoRegion == [protected_region |-> nullptr,
             initial_hash |-> Fill(MLen(SHA256_DIGEST_LENGTH), 0)]

Init ==
    /\ proc = "running"
    /\ urandom \in BOOLEAN
    /\ ncalls = 0
    /\ crypto_instance = nullptr
    /\ kem = [pk |-> <<>>, sk |-> <<>>, ct |-> <<>>, ss |-> <<>>]
    /\ dsa = [pk |-> <<>>, sk |-> <<>>, m |-> <<>>, sig |-> <<>>]
    /\ call = NoCall
    /\ frame = IdleFrame
    /\ side_channel_protection = nullptr
    /\ thread = [t \in Threads |-> IdleThread]
    /\ heap = [p \in Addrs |-> NoMap]
    /\ detector = NoRegion
    /\ leaked = {}

\* a process in which the OS entropy source can be read
InitReadable == Init /\ urandom

\* the Java caller may enter the crypto library: the process is alive, no
\* call is in progress and the caller has calls left
Quiet ==
    /\ proc = "running"
    /\ frame.pc = "idle"
    /\ ncalls < MaxCalls

\* ConstantTimeCrypto(): secure_rng is seeded from the clock
ConstantTimeCrypto == [ptr |-> "object", secure_rng |-> "clock"]

\* Java_com_ghostbridgeapp_ConstantTimeCrypto_initialize
initialize ==
    /\ Quiet
    /\ ncalls' = ncalls + 1
    /\ crypto_instance' = IF crypto_instance = nullptr
                          THEN ConstantTimeCrypto ELSE crypto_instance
    /\ call' = Call("initialize", "0", TRUE, FALSE,
                    IF crypto_instance = nullptr THEN "clock" ELSE "none", <<>>)
    /\ UNCHANGED <<proc, urandom, kemVars, sigVars, noiseVars>>

\* the end of kyberKeypair: the two arrays go to the caller in one array
KeypairReturn(kp) ==
    /\ kem' = IF kp.status # 0 THEN kem
              ELSE [pk |-> kp.pk, sk |-> kp.sk, ct |-> <<>>, ss |-> <<>>]
    /\ call' = Call("kyberKeypair", IF kp.status # 0 THEN "nullptr" ELSE "array",
                    TRUE, TRUE, crypto_instance.secure_rng, <<>>)

\* Java_com_ghostbridgeapp_ConstantTimeCrypto_kyberKeypair: pk and sk are
\* stack arrays, read as g until written
kyberKeypair ==
    /\ Quiet
    /\ ncalls' = ncalls + 1
    /\ IF crypto_instance = nullptr
       THEN /\ call' = Call("kyberKeypair", "nullptr", TRUE, FALSE, "none", <<>>)
            /\ UNCHANGED kem
       ELSE \E g \in GarbageVals, r \in RandVals :
              KeypairReturn(kyber_keypair(Fill(KemPkLen, g), Fill(KemSkLen, g),
                                          Fill(SeedLen, r)))
    /\ UNCHANGED <<proc, urandom, crypto_instance, sigVars, noiseVars>>

\* an array of the wrong length that a caller may pass: the first n bytes
Short(a, n) == Sub(a, 0, n)

\* a with byte p changed by the bit pattern d
FlipByte(a, p, d) == [a EXCEPT ![p + 1] = Xor8(@, d)]

\* the end of kyberEncaps: ct and ss go to the caller in one array
EncapsReturn(public_key, e) ==
    /\ kem' = IF public_key = kem.pk /\ e.status = 0
              THEN [kem EXCEPT !.ct = e.ct, !.ss = e.ss]
              ELSE kem
    /\ call' = Call("kyberEncaps", IF e.status # 0 THEN "nullptr" ELSE "array",
                    Len(public_key) = KemPkLen, TRUE, crypto_instance.secure_rng,
                    IF e.status # 0 THEN <<>> ELSE [ct |-> e.ct, ss |-> e.ss])

\* Java_com_ghostbridgeapp_ConstantTimeCrypto_kyberEncaps: the caller passes
\* the public key it holds or an array of another length; ct and ss are
\* stack arrays, and what lies past the end of an array is read as g too;
\* the copy of ct into buf overruns buf
kyberEncaps ==
    /\ Quiet
    /\ kem.pk # <<>>
    /\ ncalls' = ncalls + 1
    /\ \E public_key \in {kem.pk, Short(kem.pk, SeedLen)} :
         IF crypto_instance = nullptr
         THEN /\ call' = Call("kyberEncaps", "nullptr",
                              Len(public_key) = KemPkLen, FALSE, "none", <<>>)
              /\ UNCHANGED <<proc, kem>>
         ELSE \E overrun \in OverrunOutcomes :
                IF SsHashLen > HashBufLen /\ overrun = "aborts"
                THEN /\ proc' = "aborted"
                     /\ UNCHANGED <<kem, call>>
                ELSE /\ proc' = proc
                     /\ \E g \in GarbageVals, r \in RandVals :
                          EncapsReturn(public_key,
                              kyber_encaps(Fill(KemCtLen, g), Fill(KemSsLen, g),
                                           View(public_key, KemPkLen, g),
                                           Fill(SeedLen, r)))
    /\ UNCHANGED <<urandom, crypto_instance, sigVars, noiseVars>>

\* the end of kyberDecaps: ss goes to the caller
DecapsReturn(ciphertext, secret_key, ct, ss_before, d) ==
    call' = Call("kyberDecaps", IF d.status # 0 THEN "nullptr" ELSE "array",
                 Len(ciphertext) = KemCtLen /\ Len(secret_key) = KemSkLen,
                 TRUE, "none",
                 [ciphertext |-> ciphertext, secret_key |-> secret_key,
                  ct |-> ct, ss_before |-> ss_before, status |-> d.status,
                  ct_check |-> d.body.ct_check, fail |-> d.body.fail,
                  ss_success |-> d.body.ss_success, ss_failure |-> d.body.ss_failure,
                  failure_input |-> d.body.failure_input,
                  sharedSecret |-> IF d.status # 0 THEN <<>> ELSE d.body.ss])

\* Java_com_ghostbridgeapp_ConstantTimeCrypto_kyberDecaps: the caller passes
\* the ciphertext and secret key it holds, the ciphertext with one byte
\* changed, or an array of another length; ss, m and ct_check are stack
\* arrays; the copy of ct into buf overruns buf
kyberDecaps ==
    /\ Quiet
    /\ kem.ct # <<>>
    /\ ncalls' = ncalls + 1
    /\ \E args \in {<<kem.ct, kem.sk>>,
                    <<FlipByte(kem.ct, 0, 1), kem.sk>>,
                    <<Short(kem.ct, SeedLen), kem.sk>>,
                    <<kem.ct, Short(kem.sk, SeedLen)>>} :
         IF crypto_instance = nullptr
         THEN /\ call' = Call("kyberDecaps", "nullptr",
                              Len(args[1]) = KemCtLen /\ Len(args[2]) = KemSkLen,
                              FALSE, "none", <<>>)
              /\ UNCHANGED proc
         ELSE \E overrun \in OverrunOutcomes :
                IF SsHashLen > HashBufLen /\ overrun = "aborts"
                THEN /\ proc' = "aborted"
                     /\ UNCHANGED call
                ELSE /\ proc' = proc
                     /\ \E g \in GarbageVals :
                          DecapsReturn(args[1], args[2],
                              View(args[1], KemCtLen, g), Fill(KemSsLen, g),
                              kyber_decaps(Fill(KemSsLen, g),
                                           View(args[1], KemCtLen, g),
                                           View(args[2], KemSkLen, g),
                                           Fill(SeedLen, g), Fill(KemCtLen, g)))
    /\ UNCHANGED <<urandom, crypto_instance, kem, sigVars, noiseVars>>

NextKem == initialize \/ kyberKeypair \/ kyberEncaps \/ kyberDecaps

SpecKem == InitReadable /\ [][NextKem]_vars

(***************************************************************************)
(* The signature entry points                                              *)
(***************************************************************************)

\* messages the caller signs
Messages == {<<5>>, <<5, 6>>}

\* bit patterns by which a caller changes one byte
FlipMasks == {1}

\* every array that differs from a in exactly one byte, by one of the masks
OneByteFlips(a) == {FlipByte(a, p, d) : p \in 0..(Len(a) - 1), d \in FlipMasks}

\* Java_com_ghostbridgeapp_ConstantTimeCrypto_dilithiumKeypair: entropy from
\* /dev/urandom, or from std::random_device when that cannot be read; pk and
\* sk are filled byte by byte from a generator seeded with it.  The call
\* does not look at crypto_instance.
dilithiumKeypair ==
    /\ Quiet
    /\ ncalls' = ncalls + 1
    /\ \E rpk \in RandVals, rsk \in RandVals :
         dsa' = [pk |-> Fill(DPkLen, rpk), sk |-> Fill(DSkLen, rsk),
                 m |-> <<>>, sig |-> <<>>]
    /\ call' = Call("dilithiumKeypair", "array", TRUE, FALSE,
                    IF urandom THEN "urandom" ELSE "random_device", <<>>)
    /\ UNCHANGED <<proc, urandom, crypto_instance, frame, kemVars, noiseVars>>

\* Java_com_ghostbridgeapp_ConstantTimeCrypto_dilithiumSign up to the loop
\* of dilithium_sign: the caller passes a message and the secret key it
\* holds or an array of another length; sig is a stack array, read as g
\* until written, and so is what lies past the end of an array
dilithiumSign ==
    /\ Quiet
    /\ dsa.sk # <<>>
    /\ ncalls' = ncalls + 1
    /\ \E message \in Messages, secret_key \in {dsa.sk, Short(dsa.sk, SeedLen)} :
         IF crypto_instance = nullptr
         THEN /\ call' = Call("dilithiumSign", "nullptr",
                              Len(secret_key) = DSkLen, FALSE, "none", <<>>)
              /\ UNCHANGED frame
         ELSE \E g \in GarbageVals :
                /\ frame' = [pc |-> "loop",
                             message |-> message,
                             secret_key |-> secret_key,
                             sig |-> Fill(DSigLen, g),
                             st |-> SignSetup(message, View(secret_key, DSkLen, g)),
                             nonce |-> 0,
                             rejected |-> 0]
                /\ call' = Call("dilithiumSign", "pending",
                                Len(secret_key) = DSkLen, TRUE, "none", <<>>)
    /\ UNCHANGED <<proc, urandom, crypto_instance, dsa, kemVars, noiseVars>>

\* the end of one pass: continue with the next nonces, or pack the
\* signature, return 0 and hand the siglen bytes of sig to the caller
SignPassEnd(it) ==
    IF it.reject
    THEN /\ frame' = [frame EXCEPT !.nonce = (@ + DILITHIUM_L) % (2 ^ NonceBits),
                                   !.rejected = Min(@ + 1, RetryLimit)]
         /\ UNCHANGED <<dsa, call>>
    ELSE /\ frame' = IdleFrame
         /\ dsa' = IF frame.secret_key = dsa.sk
                   THEN [dsa EXCEPT !.m = frame.message,
                                    !.sig = pack_signature(frame.sig, it.c_seed, it.z)]
                   ELSE dsa
         /\ call' = Call("dilithiumSign", "array", Len(frame.secret_key) = DSkLen,
                         TRUE, "none",
                         [signature |-> pack_signature(frame.sig, it.c_seed, it.z)])

\* one pass through the loop of dilithium_sign; the bytes poly_uniform_gamma1
\* reads past its buf are read as g
SignIterate ==
    /\ proc = "running"
    /\ frame.pc = "loop"
    /\ \E g \in GarbageVals :
         \E it \in {SignIteration(frame.st, frame.nonce, g)} : SignPassEnd(it)
    /\ UNCHANGED <<proc, urandom, ncalls, crypto_instance, kemVars, noiseVars>>

\* the end of dilithiumVerify: result == 0 ? JNI_TRUE : JNI_FALSE
VerifyReturn(signature, message, public_key, result) ==
    call' = Call("dilithiumVerify", IF result = 0 THEN "JNI_TRUE" ELSE "JNI_FALSE",
                 Len(signature) = DSigLen /\ Len(public_key) = DPkLen,
                 Len(signature) = DSigLen, "none",
                 [signature |-> signature, message |-> message,
                  public_key |-> public_key, result |-> result])

\* Java_com_ghostbridgeapp_ConstantTimeCrypto_dilithiumVerify: the caller
\* passes the signature it got with its message and public key, that
\* signature or that message with one byte changed, a signature of another
\* length, or the bytes dilithium_verify derives from message and key
dilithiumVerify ==
    /\ Quiet
    /\ dsa.sig # <<>>
    /\ ncalls' = ncalls + 1
    /\ \E args \in {<<dsa.sig, dsa.m>>, <<Short(dsa.sig, SeedLen), dsa.m>>,
                    <<expected_sig(dsa.m, dsa.pk), dsa.m>>}
                   \cup {<<sig, dsa.m>> : sig \in OneByteFlips(dsa.sig)}
                   \cup {<<dsa.sig, m>> : m \in OneByteFlips(dsa.m)} :
         IF crypto_instance = nullptr
         THEN call' = Call("dilithiumVerify", "JNI_FALSE",
                           Len(args[1]) = DSigLen, FALSE, "none", <<>>)
         ELSE VerifyReturn(args[1], args[2], dsa.pk,
                           dilithium_verify(args[1], Len(args[1]), args[2], dsa.pk))
    /\ UNCHANGED <<proc, urandom, crypto_instance, dsa, frame, kemVars, noiseVars>>

NextSig == initialize \/ dilithiumKeypair \/ dilithiumSign \/ SignIterate \/ dilithiumVerify

SpecSig == InitReadable /\ [][NextSig]_vars

\* the scheduler keeps running the thread that is inside dilithium_sign
SpecSigFair == SpecSig /\ WF_vars(SignIterate)

\* the calls that draw randomness, in a process that may or may not be able
\* to read the OS entropy source
NextEntropy == initialize \/ kyberKeypair \/ kyberEncaps \/ dilithiumKeypair

SpecEntropy == Init /\ [][NextEntropy]_vars

(***************************************************************************)
(* The side-channel wrappers (AdvancedSideChannelProtection.cpp).  The     *)
(* members noise_rng, decoy_memory and cache_noise_accumulator of the one  *)
(* global object are read and written by every thread inside a wrapper.    *)
(* A use of a member is a load into the thread's temporary or a store from *)
(* it; a routine is the sequence of its uses, a loop one pass of its body, *)
(* decoy_memory one cell, and every value is kept modulo NoiseMod.         *)
(***************************************************************************)
cryptoVars == <<proc, urandom, ncalls, crypto_instance, kem, dsa, call, frame, hostVars>>

NoiseVals == 0..(NoiseMod - 1)

\* AdvancedSideChannelProtection(): noise_rng seeded from the clock,
\* decoy_memory filled from it, cache_noise_accumulator = 0
AdvancedSideChannelProtection(seed) ==
    [ptr |-> "object",
     noise_rng |-> (seed + 1) % NoiseMod,
     decoy_memory |-> seed,
     cache_noise_accumulator |-> 0]

\* noise_rng(): the generator's state is loaded, advanced and stored back
noise_rng_call == <<"rng_load", "rng_store">>

\* x += v on the volatile cache_noise_accumulator: a load and a store
accumulate == <<"acc_load", "acc_store">>

\* the loop of noise_rng() calls, then cache_noise_accumulator = em_noise_state
inject_em_noise == noise_rng_call \o <<"acc_set">>

\* the loop of noise_rng() calls, then power_mask_state.store, an atomic
balance_power_consumption == noise_rng_call

\* the decoy flushes at offsets noise_rng() % decoy_size
flush_cache_lines == noise_rng_call

\* flush, std::shuffle with noise_rng, cache_confusion += decoy_memory[..],
\* decoy_memory[noise_rng() % decoy_size] = .., cache_noise_accumulator += ..
protect_against_cache_attacks ==
    flush_cache_lines \o noise_rng_call \o <<"decoy_load">> \o noise_rng_call
        \o <<"decoy_store">> \o accumulate

\* cache_data = decoy_memory[..]; decoy_memory[..] = cache_data ^ 0xAA;
\* cache_noise_accumulator += cache_data; decoy_memory[noise_rng() % ..] ^= ..
mitigate_prime_probe_attacks ==
    <<"decoy_load", "decoy_store">> \o accumulate \o noise_rng_call
        \o <<"decoy_load", "decoy_store">>

\* random_branch = noise_rng() & 1; decoy_memory[noise_rng() % ..] = ..;
\* the loop of noise_rng() calls; cache_noise_accumulator += spec_noise
mitigate_speculative_execution ==
    noise_rng_call \o noise_rng_call \o <<"decoy_store">> \o noise_rng_call \o accumulate

\* balance_power_consumption(input), then cache_noise_accumulator += dummy
white_box_aes_sbox == balance_power_consumption \o accumulate

\* protected_memcmp(a, b, len)
protected_memcmp ==
    inject_em_noise \o noise_rng_call \o balance_power_consumption \o accumulate
        \o mitigate_speculative_execution

\* protected_crypto_operation(input, input_len, output, output_len, key, key_len)
protected_crypto_operation ==
    inject_em_noise \o protect_against_cache_attacks \o mitigate_prime_probe_attacks
        \o mitigate_speculative_execution \o balance_power_consumption
        \o white_box_aes_sbox \o inject_em_noise \o balance_power_consumption
        \o protect_against_cache_attacks \o mitigate_speculative_execution
        \o balance_power_consumption

\* the uses a thread inside wrapper op makes, in program order
Uses(op) == IF op = "protectedMemcmp" THEN protected_memcmp ELSE protected_crypto_operation

\* what the wrapper hands to the Java caller after the routine has returned
\* result: the comparison's verdict for arrays that are equal or not, or the
\* output array
Returns(op) == IF op = "protectedMemcmp" THEN {"JNI_TRUE", "JNI_FALSE"} ELSE {"array"}

\* thread t is inside a wrapper and its next use of the object is use
AtUse(t, use) ==
    /\ thread[t].op # "none"
    /\ At(Uses(thread[t].op), thread[t].pc) = use

\* thread t has made its use and holds tmp: it goes on to its next use, or
\* the routine and the wrapper return
AfterUse(t, tmp) ==
    IF thread[t].pc + 1 < Len(Uses(thread[t].op))
    THEN thread' = [thread EXCEPT ![t].pc = @ + 1, ![t].tmp = tmp]
    ELSE \E ret \in Returns(thread[t].op) :
           thread' = [thread EXCEPT ![t] = [IdleThread EXCEPT !.ret = ret]]

\* Java_com_ghostbridgeapp_AdvancedSideChannelProtection_initialize
AdvancedSideChannelProtection_initialize ==
    /\ \E seed \in NoiseVals :
         side_channel_protection' = IF side_channel_protection = nullptr
                                    THEN AdvancedSideChannelProtection(seed)
                                    ELSE side_channel_protection
    /\ UNCHANGED <<cryptoVars, thread>>

\* Java_com_ghostbridgeapp_AdvancedSideChannelProtection_protectedMemcmp up
\* to the call of protected_memcmp: the caller passes two arrays of the
\* same length or not
protectedMemcmp(t) ==
    /\ thread[t].op = "none"
    /\ \E len_a \in {1, 2}, len_b \in {1, 2} :
         thread' = [thread EXCEPT ![t] =
                      IF side_channel_protection = nullptr \/ len_a # len_b
                      THEN [IdleThread EXCEPT !.ret = "JNI_FALSE"]
                      ELSE [op |-> "protectedMemcmp", pc |-> 0, tmp |-> 0,
                            ret |-> "pending"]]
    /\ UNCHANGED <<cryptoVars, side_channel_protection>>

\* Java_com_ghostbridgeapp_AdvancedSideChannelProtection_protectedCryptoOperation
\* up to the call of protected_crypto_operation
protectedCryptoOperation(t) ==
    /\ thread[t].op = "none"
    /\ thread' = [thread EXCEPT ![t] =
                    IF side_channel_protection = nullptr
                    THEN [IdleThread EXCEPT !.ret = "nullptr"]
                    ELSE [op |-> "protectedCryptoOperation", pc |-> 0, tmp |-> 0,
                          ret |-> "pending"]]
    /\ UNCHANGED <<cryptoVars, side_channel_protection>>

\* the first half of noise_rng(): the state of the generator is loaded
RngLoad(t) ==
    /\ AtUse(t, "rng_load")
    /\ AfterUse(t, side_channel_protection.noise_rng)
    /\ UNCHANGED <<cryptoVars, side_channel_protection>>

\* the second half of noise_rng(): the advanced state is stored
RngStore(t) ==
    /\ AtUse(t, "rng_store")
    /\ side_channel_protection' =
         [side_channel_protection EXCEPT !.noise_rng = (thread[t].tmp + 1) % NoiseMod]
    /\ AfterUse(t, thread[t].tmp)
    /\ UNCHANGED cryptoVars

\* cache_noise_accumulator = em_noise_state
AccSet(t) ==
    /\ AtUse(t, "acc_set")
    /\ side_channel_protection' =
         [side_channel_protection EXCEPT !.cache_noise_accumulator = thread[t].tmp]
    /\ AfterUse(t, 0)
    /\ UNCHANGED cryptoVars

\* the load of cache_noise_accumulator += v
AccLoad(t) ==
    /\ AtUse(t, "acc_load")
    /\ AfterUse(t, side_channel_protection.cache_noise_accumulator)
    /\ UNCHANGED <<cryptoVars, side_channel_protection>>

\* the store of cache_noise_accumulator += v, v kept as 1
AccStore(t) ==
    /\ AtUse(t, "acc_store")
    /\ side_channel_protection' =
         [side_channel_protection EXCEPT
            !.cache_noise_accumulator = (thread[t].tmp + 1) % NoiseMod]
    /\ AfterUse(t, 0)
    /\ UNCHANGED cryptoVars

\* a read of decoy_memory
DecoyLoad(t) ==
    /\ AtUse(t, "decoy_load")
    /\ AfterUse(t, side_channel_protection.decoy_memory)
    /\ UNCHANGED <<cryptoVars, side_channel_protection>>

\* a write of decoy_memory, from the value the thread holds
DecoyStore(t) ==
    /\ AtUse(t, "decoy_store")
    /\ side_channel_protection' =
         [side_channel_protection EXCEPT !.decoy_memory = (thread[t].tmp + 1) % NoiseMod]
    /\ AfterUse(t, 0)
    /\ UNCHANGED cryptoVars

NextNoise ==
    \/ AdvancedSideChannelProtection_initialize
    \/ \E t \in Threads : protectedMemcmp(t)
    \/ \E t \in Threads : protectedCryptoOperation(t)
    \/ \E t \in Threads : RngLoad(t)
    \/ \E t \in Threads : RngStore(t)
    \/ \E t \in Threads : AccSet(t)
    \/ \E t \in Threads : AccLoad(t)
    \/ \E t \in Threads : AccStore(t)
    \/ \E t \in Threads : DecoyLoad(t)
    \/ \E t \in Threads : DecoyStore(t)

SpecNoise == InitReadable /\ [][NextNoise]_vars

(***************************************************************************)
(* Properties of the key encapsulation entry points                        *)
(***************************************************************************)

\* the last call was a kyberDecaps that ran kyber_decaps
DecapsRan == call.op = "kyberDecaps" /\ call.crypto_ran

\* the last call was a kyberDecaps of the ciphertext and the secret key the
\* caller got from kyberEncaps and kyberKeypair
DecapsOfOwn ==
    /\ DecapsRan
    /\ kem.ct # <<>>
    /\ call.detail.ciphertext = kem.ct
    /\ call.detail.secret_key = kem.sk

\* C1: KEM correctness.  Decapsulating, with the secret key of a generated
\* pair, the ciphertext that kyberEncaps produced for the public key of the
\* pair returns the shared secret that kyberEncaps returned.
C1_KemCorrectness ==
    DecapsOfOwn => /\ call.ret = "array"
                   /\ call.detail.sharedSecret = kem.ss

\* C6: kyberDecaps never reports failure.  Whenever kyber_decaps has run,
\* on a ciphertext that matches its re-encryption or on one that does not,
\* the status is 0 and the caller receives an array of 32 bytes.
C6_DecapsNeverReportsFailure ==
    DecapsRan => /\ call.detail.status = 0
                 /\ call.ret = "array"
                 /\ Len(call.detail.sharedSecret) = KemSsLen

\* a decapsulation of a ciphertext with one byte changed has returned, the
\* comparison having failed
C6_Witness ==
    /\ DecapsRan
    /\ call.detail.ciphertext # kem.ct
    /\ Len(call.detail.ciphertext) = KemCtLen
    /\ call.detail.fail = 1
    /\ call.ret = "array"

\* C7: the secret kyberDecaps returns is the success secret when the
\* re-encrypted ciphertext equals the input ciphertext byte for byte and the
\* failure secret otherwise; every byte of it comes from one of the two, so
\* none is the byte the output array held before the call.
C7_DecapsSelectsSecret ==
    DecapsRan => call.detail.sharedSecret =
                    IF call.detail.ct = call.detail.ct_check
                    THEN call.detail.ss_success
                    ELSE call.detail.ss_failure

\* a decapsulation whose comparison failed has returned the failure secret,
\* which differs from the success secret and from what the array held
C7_Witness ==
    /\ DecapsRan
    /\ call.detail.ct # call.detail.ct_check
    /\ call.detail.sharedSecret = call.detail.ss_failure
    /\ call.detail.ss_failure # call.detail.ss_success
    /\ call.detail.ss_failure # call.detail.ss_before

\* the calls that take a key, a ciphertext or a signature
LengthCheckedOps == {"kyberEncaps", "kyberDecaps", "dilithiumSign", "dilithiumVerify"}

\* what a call that failed hands to the Java caller
FailureReturns == {"nullptr", "JNI_FALSE"}

\* C8: an entry point given a key, ciphertext or signature array whose
\* length is not the scheme's returns a failure, and no cryptographic
\* routine has read the array.
C8_LengthMismatchFailsFast ==
    (call.op \in LengthCheckedOps /\ ~call.len_ok)
        => (call.ret \in FailureReturns /\ ~call.crypto_ran)

\* C9: while the OS entropy source cannot be read, a call that draws
\* randomness ends in a failure; none returns normally having drawn from a
\* generator seeded some other way.
C9_EntropyFailureIsFatal ==
    (~urandom /\ call.op # "none" /\ call.rng # "none")
        => call.ret \in FailureReturns

(***************************************************************************)
(* Properties of the signature entry points                                *)
(***************************************************************************)

\* the last call was a dilithiumVerify, under the caller's public key, that
\* ran dilithium_verify past its length test
VerifyRan ==
    /\ call.op = "dilithiumVerify"
    /\ call.crypto_ran
    /\ dsa.sig # <<>>
    /\ call.detail.public_key = dsa.pk

\* a and b have the same length and differ in exactly one byte
DiffersInOneByte(a, b) ==
    /\ Len(a) = Len(b)
    /\ Cardinality({i \in 1..Len(a) : a[i] # b[i]}) = 1

\* C2: signature correctness.  Verifying, under the public key of a
\* generated pair, the signature dilithiumSign returned for a message and
\* the secret key of the pair returns true.
C2_SignatureCorrectness ==
    (VerifyRan /\ call.detail.signature = dsa.sig /\ call.detail.message = dsa.m)
        => call.ret = "JNI_TRUE"

C4_SignTerminates == (frame.pc = "loop") ~> (frame.pc # "loop")

\* C5: once as many passes as the retry limit have been rejected, the call
\* is no longer in the loop: it has returned a failure to the caller.
C5_RetryLimitIsFatal ==
    (frame.pc = "loop" => frame.rejected < RetryLimit)
    /\ ((call.op = "dilithiumSign" /\ call.ret = "array") => frame.pc = "idle")

(***************************************************************************)
(* Properties of the side-channel wrappers                                 *)
(***************************************************************************)

\* thread t is between its first and its last use of the shared object
InContext(t) == thread[t].op # "none"

\* C10: uses of the shared noise context by different threads never
\* interleave: while one thread is between its first and its last use of
\* the object, no other thread is.
C10_NoiseContextExclusive ==
    \A t1, t2 \in Threads : (InContext(t1) /\ InContext(t2)) => t1 = t2

(***************************************************************************)
(* One wrapper call seen from its caller: the whole of a JNI entry point   *)
(* of AdvancedSideChannelProtection.cpp with no other thread inside.       *)
(***************************************************************************)
\* longest array a caller of protectedMemcmp passes
MaxCmpLen == 2

\* byte values the caller's arrays hold
CmpBytes == {0, 1, 255}

\* the arrays a caller passes
ByteArrays == UNION {[1..n -> CmpBytes] : n \in 0..MaxCmpLen}

\* one use of the object by a thread that holds tmp: the object and the
\* temporary after it, as RngLoad .. DecoyStore leave them
UseEffect(s, use) ==
    IF use = "rng_load" THEN [s EXCEPT !.tmp = s.obj.noise_rng]
    ELSE IF use = "rng_store"
         THEN [s EXCEPT !.obj.noise_rng = (s.tmp + 1) % NoiseMod]
    ELSE IF use = "acc_set"
         THEN [s EXCEPT !.obj.cache_noise_accumulator = s.tmp, !.tmp = 0]
    ELSE IF use = "acc_load" THEN [s EXCEPT !.tmp = s.obj.cache_noise_accumulator]
    ELSE IF use = "acc_store"
         THEN [s EXCEPT !.obj.cache_noise_accumulator = (s.tmp + 1) % NoiseMod,
                        !.tmp = 0]
    ELSE IF use = "decoy_load" THEN [s EXCEPT !.tmp = s.obj.decoy_memory]
    ELSE [s EXCEPT !.obj.decoy_memory = (s.tmp + 1) % NoiseMod, !.tmp = 0]

\* the uses lo .. hi - 1 of a routine, made one after the other
RECURSIVE RunUses(_, _, _, _)
RunUses(s, uses, lo, hi) ==
    IF hi - lo = 1 THEN UseEffect(s, At(uses, lo))
    ELSE Let(RunUses(s, uses, lo, (lo + hi) \div 2), LAMBDA s1 :
             RunUses(s1, uses, (lo + hi) \div 2, hi))

\* the object after one thread has run the routine of wrapper op alone
AfterRoutine(obj, op) == RunUses([obj |-> obj, tmp |-> 0], Uses(op), 0, Len(Uses(op))).obj

\* a comparison loop that returns at the first differing byte
RECURSIVE CompareLoopEarly(_, _, _, _, _)
CompareLoopEarly(a, b, len, i, result) ==
    IF ~(i < len) \/ result # 0 THEN [result |-> result, iterations |-> i]
    ELSE Let(Or8(result, Xor8(At(a, i), At(b, i))), LAMBDA result2 :
             CompareLoopEarly(a, b, len, i + 1, result2))

\* the comparison loop of protected_memcmp from index i on: diff = a[i] ^ b[i];
\* result |= diff; the loop has no exit but i < len.  iterations counts the
\* passes through the body.
RECURSIVE CompareLoop(_, _, _, _, _)
CompareLoop(a, b, len, i, result) ==
    IF ~(i < len) THEN [result |-> result, iterations |-> i]
    ELSE Let(Or8(result, Xor8(At(a, i), At(b, i))), LAMBDA result2 :
             CompareLoop(a, b, len, i + 1, result2))

\* what protected_memcmp(a, b, len) computes from its arguments
protected_memcmp_result(a, b, len) == CompareLoop(a, b, len, 0, 0)

\* the end of protectedMemcmp: result == 0 ? JNI_TRUE : JNI_FALSE
MemcmpReturn(a, b, cmp) ==
    call' = Call("protectedMemcmp", IF cmp.result = 0 THEN "JNI_TRUE" ELSE "JNI_FALSE",
                 TRUE, TRUE, "none",
                 [a |-> a, b |-> b, initialized |-> TRUE, result |-> cmp.result,
                  iterations |-> cmp.iterations])

\* Java_com_ghostbridgeapp_AdvancedSideChannelProtection_protectedMemcmp, the
\* whole call: JNI_FALSE without an object or for arrays of different
\* lengths, else protected_memcmp on the two arrays
protectedMemcmpCall ==
    /\ \E a \in ByteArrays, b \in ByteArrays :
         IF side_channel_protection = nullptr \/ Len(a) # Len(b)
         THEN /\ call' = Call("protectedMemcmp", "JNI_FALSE", Len(a) = Len(b), FALSE,
                              "none",
                              [a |-> a, b |-> b,
                               initialized |-> side_channel_protection # nullptr])
              /\ UNCHANGED side_channel_protection
         ELSE /\ side_channel_protection' =
                   AfterRoutine(side_channel_protection, "protectedMemcmp")
              /\ \E cmp \in {protected_memcmp_result(a, b, Len(a))} :
                   MemcmpReturn(a, b, cmp)
    /\ UNCHANGED <<proc, urandom, ncalls, crypto_instance, kem, dsa, frame, thread, hostVars>>

NextCompare == AdvancedSideChannelProtection_initialize \/ protectedMemcmpCall

SpecCompare == InitReadable /\ [][NextCompare]_vars

\* the last call was a protectedMemcmp made in a process that had its object
CompareCalled ==
    /\ call.op = "protectedMemcmp"
    /\ call.detail.initialized

\* C11: in a process whose noise context has been initialised,
\* protectedMemcmp(a, b) returns true exactly when a and b have the same
\* length and agree in every byte, which is when constant_time_memcmp finds
\* no difference; for arrays of the same length the loop makes one pass for
\* every byte, wherever the first difference lies.
C11_CompareIsExactAndFull ==
    CompareCalled =>
        /\ (call.ret = "JNI_TRUE") <=> (call.detail.a = call.detail.b)
        /\ Len(call.detail.a) = Len(call.detail.b) =>
             /\ call.crypto_ran
             /\ call.detail.iterations = Len(call.detail.a)
             /\ (call.ret = "JNI_TRUE") <=>
                  (constant_time_memcmp(call.detail.a, call.detail.b,
                                        Len(call.detail.a)) = 0)

\* two arrays of the longest length that differ in their first byte have
\* been compared: every byte was visited and the call returned false
C11_Witness ==
    /\ CompareCalled
    /\ call.crypto_ran
    /\ Len(call.detail.a) = MaxCmpLen
    /\ call.detail.a[1] # call.detail.b[1]
    /\ call.detail.iterations = MaxCmpLen
    /\ call.ret = "JNI_FALSE"

(***************************************************************************)
(* constant_time_conditional_move applied to the arguments a caller can    *)
(* pass (ConstantTimeCrypto.cpp:60-68)                                     *)
(***************************************************************************)
\* values of the int condition: zero, one, other non-zero values
Conditions == {0, 1, 2, -1}

\* the loop of constant_time_conditional_move from index i on; writes is the
\* sequence of the indices of d stored to so far
RECURSIVE MoveLoop(_, _, _, _, _, _)
MoveLoop(d, s, len, mask, i, writes) ==
    IF ~(i < len) THEN [d |-> d, writes |-> writes]
    ELSE Let2([d EXCEPT ![i + 1] =
                   At(CONSTANT_TIME_SELECT(mask, Word(At(s, i)), Word(At(d, i))), 0)],
              Append(writes, i),
              LAMBDA d2, writes2 : MoveLoop(d2, s, len, mask, i + 1, writes2))

\* one call constant_time_conditional_move(dest, src, len, condition) on
\* buffers of at least len bytes
conditionalMove ==
    /\ call = NoCall
    /\ \E dest \in ByteArrays, src \in ByteArrays, condition \in Conditions :
         \E len \in 0..Min(Len(dest), Len(src)) :
           \E r \in {MoveLoop(dest, src, len, CONSTANT_TIME_MASK(condition), 0, <<>>)} :
             call' = Call("constant_time_conditional_move", "void", TRUE, TRUE, "none",
                          [dest |-> dest, src |-> src, len |-> len,
                           condition |-> condition, d |-> r.d, writes |-> r.writes])
    /\ UNCHANGED <<proc, urandom, ncalls, crypto_instance, kem, dsa, frame,
                   side_channel_protection, thread, hostVars>>

NextMove == conditionalMove

SpecMove == InitReadable /\ [][NextMove]_vars

\* C12: after constant_time_conditional_move(dest, src, len, condition) the
\* first len bytes of dest are those of src when condition is non-zero and
\* are as they were when condition is zero, the bytes from len on are as
\* they were, and each index below len has been stored to exactly once, in
\* both cases.
C12_ConditionalMove ==
    call.op = "constant_time_conditional_move" =>
        LET m == call.detail IN
        /\ Len(m.d) = Len(m.dest)
        /\ \A i \in 1..Len(m.d) :
             m.d[i] = IF i <= m.len /\ m.condition # 0 THEN m.src[i] ELSE m.dest[i]
        /\ m.writes = [k \in 1..m.len |-> k - 1]
        /\ m.d = constant_time_conditional_move(m.dest, m.src, m.len, m.condition)

\* a move with a non-zero condition other than 1 over buffers that differ in
\* every byte has copied all of src
C12_Witness ==
    /\ call.op = "constant_time_conditional_move"
    /\ call.detail.condition = 2
    /\ call.detail.len = MaxCmpLen
    /\ \A i \in 1..MaxCmpLen : call.detail.dest[i] # call.detail.src[i]
    /\ call.detail.d = call.detail.src
    /\ Len(call.detail.writes) = MaxCmpLen

(***************************************************************************)
(* The countermeasure hooks each native entry point invokes around its     *)
(* cryptographic steps                                                     *)
(***************************************************************************)
\* the KEM and signature entry points of ConstantTimeCrypto.cpp
CryptoEntryPoints ==
    {"kyberKeypair", "kyberEncaps", "kyberDecaps",
     "dilithiumKeypair", "dilithiumSign", "dilithiumVerify"}

\* the hooks an entry point runs before its first cryptographic step: those
\* of protected_crypto_operation and protected_memcmp for the two wrappers;
\* the bodies of the KEM and signature entry points call crypto_instance
\* and nothing of the countermeasure layer
EntryHooks(op) ==
    IF op = "protectedCryptoOperation"
    THEN <<"inject_em_noise", "protect_against_cache_attacks",
           "mitigate_prime_probe_attacks", "mitigate_speculative_execution",
           "balance_power_consumption">>
    ELSE IF op = "protectedMemcmp" THEN <<"inject_em_noise">>
    ELSE <<>>

\* the hooks an entry point runs after its last cryptographic step
ExitHooks(op) ==
    IF op = "protectedCryptoOperation"
    THEN <<"protect_against_cache_attacks", "mitigate_speculative_execution",
           "balance_power_consumption">>
    ELSE IF op = "protectedMemcmp" THEN <<"mitigate_speculative_execution">>
    ELSE <<>>

\* C13: a KEM or signature entry point that has run a cryptographic routine
\* ran a countermeasure hook before it and a countermeasure hook after it.
C13_EntryPointsRunHooks ==
    (call.op \in CryptoEntryPoints /\ call.crypto_ran) =>
        /\ EntryHooks(call.op) # <<>>
        /\ ExitHooks(call.op) # <<>>

(***************************************************************************)
(* What a run of protected_crypto_operation does, counted: the hooks it    *)
(* invokes in order, its noise_rng() draws, S-box table reads, decoy       *)
(* memory accesses and delay-loop passes                                   *)
(* (AdvancedSideChannelProtection.cpp:67-373).  The k-th draw from a       *)
(* generator in state r returns (r + k) % NoiseMod, as RngLoad and         *)
(* RngStore have it.                                                       *)
(***************************************************************************)
CACHE_LINE_SIZE == 64
POWER_MASKING_ROUNDS == 16
EM_NOISE_ITERATIONS == 32
CACHE_FLUSH_ROUNDS == 8

\* the counters of a run that starts with the generator in state rng
NoTrace(rng) == [rng |-> rng, hooks |-> <<>>, draws |-> 0, table |-> 0,
                 decoy |-> 0, delay |-> 0]

\* n calls of noise_rng()
Drawn(T, n) == [T EXCEPT !.rng = (@ + n) % NoiseMod, !.draws = @ + n]

\* entry into a hook
Hook(T, name) == [T EXCEPT !.hooks = Append(@, name)]

\* balance_power_consumption(operation_type): one draw per round; each of
\* the four cases of the switch is arithmetic on power_balancer
balance_power_consumption_trace(T, operation_type) ==
    Drawn(Hook(T, "balance_power_consumption"), POWER_MASKING_ROUNDS)

\* the passes of the delay loop for one random_pattern
DelayOf(random_pattern) ==
    IF (random_pattern % 256) < 128 THEN (random_pattern % 16) + 1 ELSE 0

\* the passes of the delay loops of n draws from state rng, summed over the
\* values v .. NoiseMod - 1 a draw can return
RECURSIVE DelaySum(_, _, _)
DelaySum(rng, n, v) ==
    IF v = NoiseMod THEN 0
    ELSE Cardinality({k \in 0..(n - 1) : (rng + k) % NoiseMod = v}) * DelayOf(v)
         + DelaySum(rng, n, v + 1)

\* inject_em_noise(): one draw per iteration, the delay loop it selects
inject_em_noise_trace(T) ==
    Let(DelaySum(T.rng, EM_NOISE_ITERATIONS, 0), LAMBDA passes :
        [Drawn(Hook(T, "inject_em_noise"), EM_NOISE_ITERATIONS)
           EXCEPT !.delay = @ + passes])

\* protect_against_cache_attacks(data, size): the decoy flushes of
\* flush_cache_lines, the shuffle of the size / 64 offsets, and per offset
\* one decoy read and CACHE_FLUSH_ROUNDS draws and decoy writes
protect_against_cache_attacks_trace(T, size) ==
    Let((size + CACHE_LINE_SIZE - 1) \div CACHE_LINE_SIZE, LAMBDA lines :
        [Drawn(Hook(T, "protect_against_cache_attacks"),
               2 * CACHE_FLUSH_ROUNDS + (IF lines > 0 THEN lines - 1 ELSE 0)
                 + lines * CACHE_FLUSH_ROUNDS)
           EXCEPT !.decoy = @ + lines * (1 + CACHE_FLUSH_ROUNDS)])

\* mitigate_prime_probe_attacks(): 64 sets of 8 ways read and written, then
\* 32 times two draws and decoy_memory[..] ^= ..
mitigate_prime_probe_attacks_trace(T) ==
    [Drawn(Hook(T, "mitigate_prime_probe_attacks"), 32 * 2)
       EXCEPT !.decoy = @ + 64 * 8 * 2 + 32 * 2]

\* mitigate_speculative_execution(): random_branch = noise_rng() & 1 chooses
\* 16 decoy writes or 16 decoy ^=, two draws each; then 8 draws
mitigate_speculative_execution_trace(T) ==
    Let(T.rng % 2, LAMBDA random_branch :
        [Drawn(Hook(T, "mitigate_speculative_execution"), 1 + 16 * 2 + 8)
           EXCEPT !.decoy = @ + (IF random_branch = 1 THEN 16 ELSE 16 * 2)])

\* table reads of a lookup that stops at the entry i == input
SboxReadsEarly(input) == input + 1

\* the table reads of the lookup loop of white_box_aes_sbox: for (i < 256),
\* every entry, the wanted one selected by a mask
SboxReads(input) == 256

\* white_box_aes_sbox(input, key_material): base_sbox read into
\* obfuscated_sbox, balance_power_consumption(input), the lookup loop
white_box_aes_sbox_trace(T, input, key_material) ==
    Let(balance_power_consumption_trace(T, input), LAMBDA T1 :
        [T1 EXCEPT !.table = @ + 256 + SboxReads(input)])

\* the loop of protected_crypto_operation from index i on
RECURSIVE CryptoLoop(_, _, _, _, _, _, _)
CryptoLoop(T, input, input_len, output_len, key, key_len, i) ==
    IF ~(i < input_len /\ i < output_len) THEN T
    ELSE Let(white_box_aes_sbox_trace(T, At(input, i), At(key, i % key_len)),
             LAMBDA T1 :
             Let(IF i % 8 = 0
                 THEN balance_power_consumption_trace(inject_em_noise_trace(T1), i)
                 ELSE T1,
                 LAMBDA T2 :
                 CryptoLoop(T2, input, input_len, output_len, key, key_len, i + 1)))

\* protected_crypto_operation(input, input_len, output, output_len, key, key_len)
protected_crypto_operation_trace(T, input, input_len, output_len, key, key_len) ==
    Let(balance_power_consumption_trace(
          mitigate_speculative_execution_trace(
            mitigate_prime_probe_attacks_trace(
              protect_against_cache_attacks_trace(inject_em_noise_trace(T), input_len))),
          0),
        LAMBDA T1 :
        Let(CryptoLoop(T1, input, input_len, output_len, key, key_len, 0), LAMBDA T2 :
            balance_power_consumption_trace(
              mitigate_speculative_execution_trace(
                protect_against_cache_attacks_trace(T2, output_len)),
              255)))

\* the run protectedCryptoOperation(input, key) makes from object obj: the
\* output array has the input's length
CryptoRun(obj, input, key) ==
    protected_crypto_operation_trace(NoTrace(obj.noise_rng), input, Len(input),
                                     Len(input), key, Len(key))

\* protectedCryptoOperation called on an object in one state with two
\* inputs of one length and two keys of one length (keys of at least one
\* byte: key[i % key_len]); the process goes on from the first run
protectedCryptoOperationPair ==
    /\ call = NoCall
    /\ side_channel_protection # nullptr
    /\ \E input1 \in ByteArrays, input2 \in ByteArrays,
          key1 \in ByteArrays, key2 \in ByteArrays :
         /\ Len(input1) = Len(input2)
         /\ Len(key1) = Len(key2)
         /\ Len(key1) > 0
         /\ \E run1 \in {CryptoRun(side_channel_protection, input1, key1)},
               run2 \in {CryptoRun(side_channel_protection, input2, key2)} :
              /\ call' = Call("protectedCryptoOperation", "array", TRUE, TRUE, "none",
                              [input1 |-> input1, key1 |-> key1, run1 |-> run1,
                               input2 |-> input2, key2 |-> key2, run2 |-> run2])
              /\ side_channel_protection' =
                   [AfterRoutine(side_channel_protection, "protectedCryptoOperation")
                      EXCEPT !.noise_rng = run1.rng]
    /\ UNCHANGED <<proc, urandom, ncalls, crypto_instance, kem, dsa, frame, thread, hostVars>>

NextPair == AdvancedSideChannelProtection_initialize \/ protectedCryptoOperationPair

SpecPair == InitReadable /\ [][NextPair]_vars

\* C14: two runs of protected_crypto_operation from the same state of the
\* noise context, on inputs of the same length and keys of the same length,
\* invoke the same hooks in the same order and make the same number of
\* noise_rng() draws, S-box table reads, decoy memory accesses and delay
\* passes, whatever the bytes of the inputs and keys.
C14_CountsIndependentOfData ==
    call.op = "protectedCryptoOperation" =>
        /\ call.detail.run1.hooks = call.detail.run2.hooks
        /\ call.detail.run1.draws = call.detail.run2.draws
        /\ call.detail.run1.table = call.detail.run2.table
        /\ call.detail.run1.decoy = call.detail.run2.decoy
        /\ call.detail.run1.delay = call.detail.run2.delay

\* two runs on inputs of the longest length that differ in every byte, with
\* keys that differ in every byte, have gone through the S-box loop
C14_Witness ==
    /\ call.op = "protectedCryptoOperation"
    /\ Len(call.detail.input1) = MaxCmpLen
    /\ \A i \in 1..MaxCmpLen : call.detail.input1[i] # call.detail.input2[i]
    /\ \A i \in 1..Len(call.detail.key1) : call.detail.key1[i] # call.detail.key2[i]
    /\ call.detail.run1.table = MaxCmpLen * 512
    /\ Len(call.detail.run1.hooks) > 8

(***************************************************************************)
(* The secure-memory services: ColdBootProtector                           *)
(* (cold_boot_protector.cpp:18-88) and SecureMemoryModule                  *)
(* (SecureMemoryWiper.cpp:59-162, 282-296).  A mapping is its length, its  *)
(* bytes, whether its pages are locked, and what its owner knows of it:    *)
(* the size asked for and the service asked.                               *)
(***************************************************************************)
\* sysconf(_SC_PAGESIZE), getpagesize()
PageSize == 2

\* size_t values are taken modulo SizeMod
SizeMod == 64

\* the jint sizes a caller passes
Sizes == (-1)..(2 * PageSize)

\* the longest mapping the address space has room for
MaxMapLen == 2 * PageSize

\* long allocSize = ((size + pageSize - 1) / pageSize) * pageSize, size > 0
AllocSize(size) == ((size + PageSize - 1) \div PageSize) * PageSize

\* a length that is not rounded up to the page
ZeroSizeUnrounded(size) == size

\* allocSize of nativeZeroAndFree
ZeroSize(size) == ((size + PageSize - 1) \div PageSize) * PageSize

\* size_t aligned_size = ((size + page_size - 1) / page_size) * page_size,
\* with the jint converted to size_t
aligned_size(size) ==
    ((((size % SizeMod) + PageSize - 1) % SizeMod) \div PageSize) * PageSize

\* what mmap(NULL, len, ..) may return: MAP_FAILED, here 0, or for a length
\* it accepts an address without a mapping
MmapResults(len) ==
    {0} \cup (IF len > 0 /\ len <= MaxMapLen THEN {p \in Addrs : heap[p] = NoMap} ELSE {})

Mapping(len, locked, bytes, size, by) ==
    [len |-> len, locked |-> locked, bytes |-> bytes, size |-> size, by |-> by]

\* the end of an allocation: the jlong the Java caller receives
AllocReturn(op, size, p) ==
    call' = Call(op, p, TRUE, FALSE, "none", [size |-> size, before |-> heap])

\* Java_com_ghostbridge_crypto_security_ColdBootProtector_nativeAllocateLockedBuffer
nativeAllocateLockedBuffer ==
    /\ Quiet
    /\ ncalls' = ncalls + 1
    /\ \E size \in Sizes :
         IF size <= 0
         THEN AllocReturn("nativeAllocateLockedBuffer", size, 0) /\ UNCHANGED heap
         ELSE \E ptr \in MmapResults(AllocSize(size)), mlock_ok \in BOOLEAN :
                IF ptr = 0 \/ ~mlock_ok
                THEN \* MAP_FAILED, or mlock failed and the mapping was unmapped
                     AllocReturn("nativeAllocateLockedBuffer", size, 0) /\ UNCHANGED heap
                ELSE /\ heap' = [heap EXCEPT ![ptr] =
                                   Mapping(AllocSize(size), TRUE, Fill(AllocSize(size), 0),
                                           size, "ColdBootProtector")]
                     /\ AllocReturn("nativeAllocateLockedBuffer", size, ptr)
    /\ UNCHANGED <<proc, urandom, crypto_instance, kem, dsa, frame,
                   side_channel_protection, thread, detector, leaked>>

\* allocate_secure_memory(size): mmap, mlock with a warning when it fails,
\* secure_random_fill; 0 stands for NULL
allocate_secure_memory(size, ptr, mlock_ok, r) ==
    IF ptr = 0 THEN heap
    ELSE [heap EXCEPT ![ptr] =
            Mapping(aligned_size(size), mlock_ok, Fill(aligned_size(size), r),
                    size, "SecureMemoryModule")]

\* Java_com_ghostbridgeapp_SecureMemoryModule_nativeAllocateSecure
nativeAllocateSecure ==
    /\ Quiet
    /\ ncalls' = ncalls + 1
    /\ \E size \in Sizes :
         \E ptr \in MmapResults(aligned_size(size)), mlock_ok \in BOOLEAN, r \in RandVals :
           /\ heap' = allocate_secure_memory(size, ptr, mlock_ok, r)
           /\ AllocReturn("nativeAllocateSecure", size, ptr)
    /\ UNCHANGED <<proc, urandom, crypto_instance, kem, dsa, frame,
                   side_channel_protection, thread, detector, leaked>>

\* the owner of a buffer stores key material in it
storeSecret ==
    /\ Quiet
    /\ ncalls' = ncalls + 1
    /\ \E p \in Addrs :
         /\ heap[p] # NoMap
         /\ heap' = [heap EXCEPT ![p].bytes = Fill(heap[p].len, 77)]
         /\ call' = Call("storeSecret", "void", TRUE, FALSE, "none", [handle |-> p])
    /\ UNCHANGED <<proc, urandom, crypto_instance, kem, dsa, frame,
                   side_channel_protection, thread, detector, leaked>>

AllocOps == {"nativeAllocateLockedBuffer", "nativeAllocateSecure"}

\* C15: an allocation of either secure-memory service returns a non-null
\* handle only for a mapping that covers the size asked for, whose pages
\* are locked and whose every byte is zero; when it returns the null handle
\* (size not positive, mmap or mlock failed) the process holds the mappings
\* it held before and no other.
C15_AllocateLocked ==
    call.op \in AllocOps =>
        IF call.ret # 0
        THEN /\ call.detail.size > 0
             /\ heap[call.ret] # NoMap
             /\ heap[call.ret].len >= call.detail.size
             /\ heap[call.ret].locked
             /\ \A i \in 1..heap[call.ret].len : heap[call.ret].bytes[i] = 0
        ELSE heap = call.detail.before

\* static const unsigned char DOD_PATTERNS[][3]
DOD_PATTERNS ==
    <<<<0, 0, 0>>, <<255, 255, 255>>, <<85, 85, 85>>, <<170, 170, 170>>,
      <<146, 73, 36>>, <<73, 36, 146>>, <<0, 0, 0>>>>

\* one step of a release on the mapping: a system call on its first len
\* bytes, or a store of bytes over or a read of them
Step(op, len, bytes) == [op |-> op, len |-> len, bytes |-> bytes]

\* dod_secure_wipe(ptr, size) for size > 0: mlock, memory[i] =
\* DOD_PATTERNS[pass][i % 3] in passes 0 .. 5, in pass 6 secure_random_fill
\* and memset 0, the verification loop, munlock
dod_secure_wipe(size, mlock_ok, r) ==
    <<Step(IF mlock_ok THEN "mlock" ELSE "mlock_failed", size, <<>>)>>
    \o [pass \in 1..6 |->
          Step("write", size, Tab(size, LAMBDA i : At(At(DOD_PATTERNS, pass - 1), i % 3)))]
    \o <<Step("write", size, Fill(size, r)), Step("write", size, Fill(size, 0)),
         Step("read", size, <<>>), Step("munlock", size, <<>>)>>

\* free_secure_memory(ptr, size) for ptr != NULL: the wipe of aligned_size
\* bytes (none of it for a size of 0), munlock, munmap
free_secure_memory(size, mlock_ok, r) ==
    (IF aligned_size(size) = 0 THEN <<>>
     ELSE dod_secure_wipe(aligned_size(size), mlock_ok, r))
    \o <<Step("munlock", aligned_size(size), <<>>),
         Step("munmap", aligned_size(size), <<>>)>>

\* nativeZeroAndFree(bufferPtr, size) for bufferPtr != 0 and size > 0:
\* explicit_bzero, munlock, munmap of allocSize bytes
ZeroAndFree(size) ==
    <<Step("write", ZeroSize(size), Fill(ZeroSize(size), 0)),
      Step("munlock", ZeroSize(size), <<>>),
      Step("munmap", ZeroSize(size), <<>>)>>

\* mapping m after one step
AfterStep(m, st) ==
    IF st.op = "write"
    THEN [m EXCEPT !.bytes = st.bytes \o Sub(m.bytes, st.len, m.len - st.len)]
    ELSE IF st.op = "mlock" THEN [m EXCEPT !.locked = TRUE]
    ELSE IF st.op = "munlock" THEN [m EXCEPT !.locked = FALSE]
    ELSE IF st.op = "munmap"
         THEN (IF st.len >= m.len THEN NoMap
               ELSE [m EXCEPT !.len = m.len - st.len,
                              !.bytes = Sub(m.bytes, st.len, m.len - st.len)])
    ELSE m

\* mapping m after the steps k .. of a release
RECURSIVE AfterSteps(_, _, _)
AfterSteps(m, trace, k) ==
    IF k > Len(trace) THEN m
    ELSE Let(AfterStep(m, trace[k]), LAMBDA m2 : AfterSteps(m2, trace, k + 1))

\* what a caller passes to the release of a service: a handle it holds from
\* that service with the size it asked for, or the null handle
FreeArgs(by) ==
    {<<p, heap[p].size>> : p \in {q \in Addrs : heap[q] # NoMap /\ heap[q].by = by}}
    \cup {<<0, size>> : size \in Sizes}

\* the end of a release
FreeReturn(op, ret, handle, size, trace) ==
    /\ heap' = IF handle = 0 THEN heap
               ELSE [heap EXCEPT ![handle] = AfterSteps(heap[handle], trace, 1)]
    /\ call' = Call(op, ret, TRUE, FALSE, "none",
                    [handle |-> handle, size |-> size, before |-> heap, trace |-> trace])

\* Java_com_ghostbridge_crypto_security_ColdBootProtector_nativeZeroAndFree
nativeZeroAndFree ==
    /\ Quiet
    /\ ncalls' = ncalls + 1
    /\ \E args \in FreeArgs("ColdBootProtector") :
         FreeReturn("nativeZeroAndFree", "void", args[1], args[2],
                    IF args[1] = 0 \/ args[2] <= 0 THEN <<>> ELSE ZeroAndFree(args[2]))
    /\ UNCHANGED <<proc, urandom, crypto_instance, kem, dsa, frame,
                   side_channel_protection, thread, detector, leaked>>

\* Java_com_ghostbridgeapp_SecureMemoryModule_nativeFreeSecure
nativeFreeSecure ==
    /\ Quiet
    /\ ncalls' = ncalls + 1
    /\ \E args \in FreeArgs("SecureMemoryModule"), mlock_ok \in BOOLEAN, r \in RandVals :
         IF args[1] = 0
         THEN FreeReturn("nativeFreeSecure", "JNI_FALSE", 0, args[2], <<>>)
         ELSE FreeReturn("nativeFreeSecure",
                         IF aligned_size(args[2]) = 0 THEN "JNI_FALSE" ELSE "JNI_TRUE",
                         args[1], args[2], free_secure_memory(args[2], mlock_ok, r))
    /\ UNCHANGED <<proc, urandom, crypto_instance, kem, dsa, frame,
                   side_channel_protection, thread, detector, leaked>>

NextMem ==
    \/ nativeAllocateLockedBuffer
    \/ nativeAllocateSecure
    \/ storeSecret
    \/ nativeZeroAndFree
    \/ nativeFreeSecure

SpecMem == InitReadable /\ [][NextMem]_vars

FreeOps == {"nativeZeroAndFree", "nativeFreeSecure"}

\* the steps of the last release that store to the mapping
Writes == {i \in 1..Len(call.detail.trace) : call.detail.trace[i].op = "write"}

\* the steps of the last release that unlock or unmap
Releases == {i \in 1..Len(call.detail.trace) :
               call.detail.trace[i].op \in {"munlock", "munmap"}}

\* C16: a release of either service, called with a handle of that service
\* and the size it was allocated with, stores to the mapping, every store
\* covers the whole page-rounded mapping and comes before every munlock and
\* munmap, the last store leaves every byte zero, the pages are unlocked,
\* the one munmap is the last step and has the mapping's length, and
\* afterwards that mapping and no other is gone; a release called with the
\* null handle makes no step and changes no mapping.
C16_WipeBeforeRelease ==
    call.op \in FreeOps =>
        LET d == call.detail
            tr == d.trace
        IN  IF d.handle = 0
            THEN tr = <<>> /\ heap = d.before
            ELSE /\ Writes # {}
                 /\ \A i \in Writes : tr[i].len = d.before[d.handle].len
                 /\ \A i \in Writes : \A j \in Releases : i < j
                 /\ LET last == CHOOSE i \in Writes : \A j \in Writes : j <= i
                    IN  tr[last].bytes = Fill(d.before[d.handle].len, 0)
                 /\ \E j \in Releases : tr[j].op = "munlock"
                 /\ {j \in Releases : tr[j].op = "munmap"} = {Len(tr)}
                 /\ tr[Len(tr)].len = d.before[d.handle].len
                 /\ heap = [d.before EXCEPT ![d.handle] = NoMap]

\* a buffer of more than one page, allocated with a size that is not a
\* multiple of the page and holding key material, has been released while
\* another mapping stays
C16_Witness ==
    /\ call.op \in FreeOps
    /\ call.detail.handle # 0
    /\ call.detail.size = PageSize + 1
    /\ call.detail.before[call.detail.handle].len = 2 * PageSize
    /\ \A i \in 1..(2 * PageSize) : call.detail.before[call.detail.handle].bytes[i] = 77
    /\ \E p \in Addrs : heap[p] # NoMap

(***************************************************************************)
(* The tamper detector (memory_tampering_detector.cpp:13-118).  Its three  *)
(* entry points run under region_mutex, one at a time.                     *)
(***************************************************************************)
RegionLen == MLen(REGION_SIZE)

\* SHA256_Init, SHA256_Update, SHA256_Final of the library: a digest of
\* SHA256_DIGEST_LENGTH bytes, here the sponge's
SHA256(data) == shake256(MLen(SHA256_DIGEST_LENGTH), data)

\* a check that does not compare the hashes
CheckInitializedOnly(d) ==
    IF d.protected_region = nullptr THEN "JNI_FALSE" ELSE "JNI_TRUE"

\* what nativeCheckRegionIntegrity returns for the detector state d
CheckRegionIntegrity(d) ==
    IF d.protected_region = nullptr THEN "JNI_FALSE"
    ELSE IF SHA256(d.protected_region) # d.initial_hash THEN "JNI_FALSE"
    ELSE "JNI_TRUE"

\* an initialisation that never finds a region in place
NeverInitialized(d) == FALSE

\* if (protected_region != nullptr) of nativeInitializeRegion
AlreadyInitialized(d) == d.protected_region # nullptr

\* Java_com_ghostbridge_security_MemoryTamperingDetector_nativeInitializeRegion;
\* hashed is history: the bytes initial_hash was computed from
nativeInitializeRegion ==
    /\ \E malloc_ok \in BOOLEAN, r \in RandVals :
         IF AlreadyInitialized(detector) \/ ~malloc_ok
         THEN /\ call' = Call("nativeInitializeRegion", "JNI_FALSE", TRUE, FALSE, "none",
                              [before |-> detector, malloc_ok |-> malloc_ok])
              /\ UNCHANGED detector
         ELSE /\ detector' = [protected_region |-> Fill(RegionLen, r),
                              initial_hash |-> SHA256(Fill(RegionLen, r)),
                              hashed |-> Fill(RegionLen, r)]
              /\ call' = Call("nativeInitializeRegion", "JNI_TRUE", TRUE, FALSE,
                              IF urandom THEN "urandom" ELSE "rand",
                              [before |-> detector, malloc_ok |-> malloc_ok])
    /\ UNCHANGED <<proc, urandom, ncalls, crypto_instance, kem, dsa, frame,
                   side_channel_protection, thread, heap, leaked>>

\* Java_com_ghostbridge_security_MemoryTamperingDetector_nativeCheckRegionIntegrity
nativeCheckRegionIntegrity ==
    /\ call' = Call("nativeCheckRegionIntegrity", CheckRegionIntegrity(detector),
                    TRUE, FALSE, "none", <<>>)
    /\ UNCHANGED <<proc, urandom, ncalls, crypto_instance, kem, dsa, frame,
                   side_channel_protection, thread, hostVars>>

\* the memory operations of nativeCleanupRegion on detector state d: the
\* region is zeroed and freed if there is one, then initial_hash is zeroed
CleanupSteps(d) ==
    (IF d.protected_region # nullptr THEN <<"memset region", "free region">> ELSE <<>>)
        \o <<"memset initial_hash">>

\* Java_com_ghostbridge_security_MemoryTamperingDetector_nativeCleanupRegion:
\* protected_region = nullptr, initial_hash all zero
nativeCleanupRegion ==
    /\ detector' = NoRegion
    /\ call' = Call("nativeCleanupRegion", "void", TRUE, FALSE, "none",
                    [before |-> detector, steps |-> CleanupSteps(detector)])
    /\ UNCHANGED <<proc, urandom, ncalls, crypto_instance, kem, dsa, frame,
                   side_channel_protection, thread, heap, leaked>>

\* a store into the protected region by other code of the process: the low
\* or the high bit of its first or last byte is inverted
writeRegion ==
    /\ detector.protected_region # nullptr
    /\ \E pos \in {0, RegionLen - 1}, bit \in {1, 128} :
         /\ detector' = [detector EXCEPT !.protected_region = FlipByte(@, pos, bit)]
         /\ call' = Call("writeRegion", "void", TRUE, FALSE, "none", [pos |-> pos])
    /\ UNCHANGED <<proc, urandom, ncalls, crypto_instance, kem, dsa, frame,
                   side_channel_protection, thread, heap, leaked>>

NextRegion ==
    \/ nativeInitializeRegion
    \/ nativeCheckRegionIntegrity
    \/ nativeCleanupRegion
    \/ writeRegion

SpecRegion == Init /\ [][NextRegion]_vars

\* C17: nativeCheckRegionIntegrity returns true exactly when the region is
\* initialised and the hash of its present bytes is the hash of the bytes
\* it held when it was initialised; so it returns true while the region
\* holds those bytes and false when it is not initialised.
C17_CheckIntegrity ==
    call.op = "nativeCheckRegionIntegrity" =>
        /\ (call.ret = "JNI_TRUE") <=>
              /\ detector.protected_region # nullptr
              /\ SHA256(detector.protected_region) = SHA256(detector.hashed)
        /\ (detector.protected_region # nullptr
              /\ detector.protected_region = detector.hashed) => call.ret = "JNI_TRUE"
        /\ detector.protected_region = nullptr => call.ret = "JNI_FALSE"

\* a check of an initialised region after a store that changed its hash
C17_Witness ==
    /\ call.op = "nativeCheckRegionIntegrity"
    /\ detector.protected_region # nullptr
    /\ detector.protected_region # detector.hashed
    /\ SHA256(detector.protected_region) # detector.initial_hash
    /\ call.ret = "JNI_FALSE"

(***************************************************************************)
(* Properties of implicit rejection, of the signing loop's sampler and of  *)
(* the challenge                                                           *)
(***************************************************************************)
\* sequence part occurs in sequence whole as a run of consecutive bytes
Contains(whole, part) ==
    \E off \in 0..(Len(whole) - Len(part)) : Sub(whole, off, Len(part)) = part

\* C18: the failure secret of kyberDecaps is the hash of an input that
\* contains the implicit-rejection bytes of the secret key and the bytes of
\* the ciphertext, so that it is not one value for all rejected ciphertexts
\* of a key.
C18_FailureSecretBindsCiphertext ==
    (DecapsRan /\ call.len_ok) =>
        /\ call.detail.ss_failure = shake128(KemSsLen, call.detail.failure_input, 3)
        /\ Contains(call.detail.failure_input,
                    Sub(call.detail.secret_key, KemSkLen - MLen(64), SeedLen))
        /\ Contains(call.detail.failure_input, call.detail.ct)

\* C19: the nonce is part of what the mask sampler hashes: in a retry of
\* the signing loop the XOF input of each of the l samples differs from the
\* XOF input of every sample of the pass before, whose nonces were the l
\* preceding ones.
C19_RetryUsesFreshNonce ==
    (frame.pc = "loop" /\ frame.rejected > 0) =>
        \A i \in 0..(DILITHIUM_L - 1) : \A j \in 1..DILITHIUM_L :
            GammaXofInput(frame.st.rhoprime, frame.nonce + i)
                # GammaXofInput(frame.st.rhoprime, frame.nonce + i - j)

(***************************************************************************)
(* sample_challenge applied to every seed, with the polynomial, the wanted *)
(* weight and the XOF buffer scaled down together: DILITHIUM_N = 256       *)
(* coefficients, tau = 49, buf[136] in the program                         *)
(***************************************************************************)
ChalN == 8
ChalTau == 3
ChalBufLen == 4

\* one call sample_challenge(c, seed)
sampleChallenge ==
    /\ call = NoCall
    /\ \E seed \in [1..SeedLen -> Byte] :
         \E c \in {sample_challenge_at(seed, ChalN, ChalTau, ChalBufLen)} :
           call' = Call("sample_challenge", "void", TRUE, TRUE, "none",
                        [seed |-> seed, c |-> c])
    /\ UNCHANGED <<proc, urandom, ncalls, crypto_instance, kem, dsa, frame,
                   side_channel_protection, thread, hostVars>>

NextChallenge == sampleChallenge

SpecChallenge == InitReadable /\ [][NextChallenge]_vars

\* C20: for every seed the challenge sample_challenge leaves in c has
\* exactly the wanted number of non-zero coefficients, each of them 1 or
\* -1, and all its other coefficients are 0.
C20_ChallengeWeight ==
    call.op = "sample_challenge" =>
        /\ Cardinality({j \in 1..Len(call.detail.c) : call.detail.c[j] # 0}) = ChalTau
        /\ \A j \in 1..Len(call.detail.c) : call.detail.c[j] \in {-1, 0, 1}

(***************************************************************************)
(* The values white_box_aes_sbox and protected_crypto_operation compute    *)
(* (AdvancedSideChannelProtection.cpp:255-373).  A 64-bit word is the      *)
(* sequence of its eight bytes, low byte first; arithmetic on it is        *)
(* modulo 2^64.                                                            *)
(***************************************************************************)
\* (uint64_t)a for a byte a
Word64(a) == <<a, 0, 0, 0, 0, 0, 0, 0>>

\* a ^ b on 64-bit words
Xor64(a, b) == Tab(8, LAMBDA k : Xor8(At(a, k), At(b, k)))

\* byte k of a word, zero above the word
ByteOf(a, k) == IF k < 8 THEN At(a, k) ELSE 0

\* a >> n for 0 <= n < 64
Shr64(a, n) ==
    Tab(8, LAMBDA k :
        ((ByteOf(a, k + (n \div 8)) \div 2^(n % 8))
         + ByteOf(a, k + (n \div 8) + 1) * 2^(8 - (n % 8))) % 256)

\* the sum of the byte products a[i] * b[k - i] that fall on byte k
RECURSIVE MulColumn(_, _, _, _)
MulColumn(a, b, k, i) ==
    IF i > k THEN 0 ELSE At(a, i) * At(b, k - i) + MulColumn(a, b, k, i + 1)

\* bytes k .. 7 of a * b, carry coming in from the bytes below
RECURSIVE MulBytes(_, _, _, _)
MulBytes(a, b, k, carry) ==
    IF k = 8 THEN <<>>
    ELSE Let(MulColumn(a, b, k, 0) + carry, LAMBDA s :
             <<s % 256>> \o MulBytes(a, b, k + 1, s \div 256))

\* a * b on uint64_t
Mul64(a, b) == Let2(a, b, LAMBDA aa, bb : MulBytes(aa, bb, 0, 0))

\* static const uint8_t base_sbox[256]
base_sbox ==
    <<99, 124, 119, 123, 242, 107, 111, 197, 48, 1, 103, 43, 254, 215, 171, 118,
      202, 130, 201, 125, 250, 89, 71, 240, 173, 212, 162, 175, 156, 164, 114, 192,
      183, 253, 147, 38, 54, 63, 247, 204, 52, 165, 229, 241, 113, 216, 49, 21,
      4, 199, 35, 195, 24, 150, 5, 154, 7, 18, 128, 226, 235, 39, 178, 117,
      9, 131, 44, 26, 27, 110, 90, 160, 82, 59, 214, 179, 41, 227, 47, 132,
      83, 209, 0, 237, 32, 252, 177, 91, 106, 203, 190, 57, 74, 76, 88, 207,
      208, 239, 170, 251, 67, 77, 51, 133, 69, 249, 2, 127, 80, 60, 159, 168,
      81, 163, 64, 143, 146, 157, 56, 245, 188, 182, 218, 33, 16, 255, 243, 210,
      205, 12, 19, 236, 95, 151, 68, 23, 196, 167, 126, 61, 100, 93, 25, 115,
      96, 129, 79, 220, 34, 42, 144, 136, 70, 238, 184, 20, 222, 94, 11, 219,
      224, 50, 58, 10, 73, 6, 36, 92, 194, 211, 172, 98, 145, 149, 228, 121,
      231, 200, 55, 109, 141, 213, 78, 169, 108, 86, 244, 234, 101, 122, 174, 8,
      186, 120, 37, 46, 28, 166, 180, 198, 232, 221, 116, 31, 75, 189, 139, 138,
      112, 62, 181, 102, 72, 3, 246, 14, 97, 53, 87, 185, 134, 193, 29, 158,
      225, 248, 152, 17, 105, 217, 142, 148, 155, 30, 135, 233, 206, 85, 40, 223,
      140, 161, 137, 13, 191, 230, 66, 104, 65, 153, 45, 15, 176, 84, 187, 22>>

\* 0x0123456789ABCDEF, the multiplier of key_byte in protected_crypto_operation
KeySpread == <<239, 205, 171, 137, 103, 69, 35, 1>>

\* 0x9E3779B97F4A7C15, the multiplier of the final obfuscation
FinalSpread == <<21, 124, 74, 127, 185, 121, 55, 158>>

\* key_material = ((uint64_t)key_byte) * 0x0123456789ABCDEF
KeyMaterial(key_byte) == Mul64(Word64(key_byte), KeySpread)

\* the low bytes of key_material >> s for s = 0 .. 63
ShiftedLow(key_material) == Tab(64, LAMBDA s : At(Shr64(key_material, s), 0))

\* obfuscated_sbox[i] = base_sbox[i] ^ ((key_material >> (i % 64)) & 0xFF),
\* an entry below 256 held in a uint64_t
obfuscated_sbox(key_material) ==
    Let(ShiftedLow(key_material), LAMBDA low :
        Tab(256, LAMBDA i : Xor8(At(base_sbox, i), At(low, i % 64))))

\* a selection that compares i with input read as a signed char
LookupMaskSigned(i, input) ==
    IF i = (IF input >= 128 THEN input - 256 ELSE input) THEN 255 ELSE 0

\* mask = (i == input) ? 0xFFFFFFFFFFFFFFFF : 0, on the byte an entry has
LookupMask(i, input) == IF i = input THEN 255 ELSE 0

\* the lookup loop over the entries lo .. hi - 1: result ^= entry & mask,
\* one read of obfuscated_sbox[i] for the selection in each pass
RECURSIVE LookupLoop(_, _, _, _)
LookupLoop(table, input, lo, hi) ==
    IF hi - lo = 1
    THEN [result |-> And8(At(table, lo), LookupMask(lo, input)), reads |-> 1]
    ELSE Let2(LookupLoop(table, input, lo, (lo + hi) \div 2),
              LookupLoop(table, input, (lo + hi) \div 2, hi),
              LAMBDA l, r : [result |-> Xor8(l.result, r.result),
                             reads |-> l.reads + r.reads])

\* what white_box_aes_sbox(input, key_material) returns, and the entries its
\* lookup loop read: the loop over all of the table, then
\* result ^= key_material * 0x9E3779B97F4A7C15
white_box_aes_sbox_value(input, key_material) ==
    Let(LookupLoop(obfuscated_sbox(key_material), input, 0, 256), LAMBDA l :
        [result |-> Xor64(Word64(l.result), Mul64(key_material, FinalSpread)),
         reads |-> l.reads])

\* the values of key_material a lookup is given: those of the key bytes a
\* caller passes, and a word with every bit set
KeyMaterials == {KeyMaterial(b) : b \in CmpBytes} \cup {Fill(8, 255)}

\* one call white_box_aes_sbox(input, key_material) on the object
whiteBoxAesSbox ==
    /\ call = NoCall
    /\ side_channel_protection # nullptr
    /\ \E input \in Byte, key_material \in KeyMaterials :
         \E r \in {white_box_aes_sbox_value(input, key_material)} :
           call' = Call("white_box_aes_sbox", r.result, TRUE, TRUE, "none",
                        [input |-> input, key_material |-> key_material,
                         reads |-> r.reads])
    /\ side_channel_protection' =
         RunUses([obj |-> side_channel_protection, tmp |-> 0], white_box_aes_sbox,
                 0, Len(white_box_aes_sbox)).obj
    /\ UNCHANGED <<proc, urandom, ncalls, crypto_instance, kem, dsa, frame, thread, hostVars>>

NextSbox == AdvancedSideChannelProtection_initialize \/ whiteBoxAesSbox

SpecSbox == InitReadable /\ [][NextSbox]_vars

\* C21: white_box_aes_sbox(input, key_material) reads all 256 entries of
\* the table in its lookup loop, and returns the entry of the key-obfuscated
\* table at index input, xored with key_material * 0x9E3779B97F4A7C15, for
\* every input byte and key material.
C21_LookupIsFullScan ==
    call.op = "white_box_aes_sbox" =>
        /\ call.detail.reads = 256
        /\ call.ret =
             Xor64(Word64(Xor8(At(base_sbox, call.detail.input),
                               At(Shr64(call.detail.key_material,
                                        call.detail.input % 64), 0))),
                   Mul64(call.detail.key_material, FinalSpread))

\* entry 200 has been looked up under the key material of key byte 255,
\* which changes the entry: the scan read the whole table and returned
\* 0x87140FE352BAF2AC
C21_Witness ==
    /\ call.op = "white_box_aes_sbox"
    /\ call.detail.input = 200
    /\ call.detail.key_material = KeyMaterial(255)
    /\ call.detail.reads = 256
    /\ At(obfuscated_sbox(call.detail.key_material), 200) # At(base_sbox, 200)
    /\ call.ret = <<172, 242, 186, 82, 227, 15, 20, 135>>

(***************************************************************************)
(* The reductions and polynomial routines of the KEM                       *)
(* (ConstantTimeCrypto.cpp:73-109, 589-621).  The values stay below 2^31,  *)
(* so the uint32_t arithmetic of the code wraps nowhere but in             *)
(* a * 62209, of which only the low 16 bits are kept.                      *)
(***************************************************************************)
\* QINV, the multiplier in montgomery_reduce
QINV == 62209

\* the low 16 bits of a * b on uint32_t, for b below 2^16
Low16Mul(a, b) ==
    ((a % 256) * b + ((((a \div 256) % 256) * b) % 256) * 256) % 65536

\* montgomery_reduce(a) before the conversion to the return type:
\* u = a * 62209; u &= (1U << 16) - 1; u *= KYBER_Q; a = (a + u) >> 16
montgomery_reduce_wide(a) == (a + Low16Mul(a, QINV) * KYBER_Q) \div 65536

\* uint16_t montgomery_reduce(uint32_t a)
montgomery_reduce(a) == montgomery_reduce_wide(a) % 65536

\* v = ((1U << 26) + KYBER_Q / 2) / KYBER_Q in barrett_reduce
BarrettV == (2^26 + KYBER_Q \div 2) \div KYBER_Q

\* uint16_t barrett_reduce(uint16_t a): t = v * a; t >>= 26; t *= KYBER_Q;
\* return a - t, converted to uint16_t
barrett_reduce(a) == (a - ((BarrettV * a) \div 2^26) * KYBER_Q) % 65536

\* the canonical coefficients whose products montgomery_reduce is given
\* with every canonical coefficient
ProductCoeffs == {1, 2, 1664, 3328}

\* one call barrett_reduce(a) on a 16-bit value
barrettReduce ==
    /\ call = NoCall
    /\ \E a \in 0..65535 :
         call' = Call("barrett_reduce", barrett_reduce(a), TRUE, TRUE, "none",
                      [a |-> a])
    /\ UNCHANGED <<proc, urandom, ncalls, crypto_instance, kem, dsa, frame,
                   side_channel_protection, thread, hostVars>>

\* one call montgomery_reduce((uint32_t)x * y) on two canonical coefficients
montgomeryReduce ==
    /\ call = NoCall
    /\ \E x \in 0..(KYBER_Q - 1), y \in ProductCoeffs :
         call' = Call("montgomery_reduce", montgomery_reduce(x * y), TRUE, TRUE, "none",
                      [a |-> x * y, x |-> x, y |-> y,
                       wide |-> montgomery_reduce_wide(x * y)])
    /\ UNCHANGED <<proc, urandom, ncalls, crypto_instance, kem, dsa, frame,
                   side_channel_protection, thread, hostVars>>

NextReduce == barrettReduce \/ montgomeryReduce

SpecReduce == InitReadable /\ [][NextReduce]_vars

\* barrett_reduce(a) is a modulo Q, in [0, Q)
BarrettIsReduction ==
    call.op = "barrett_reduce" =>
        /\ call.ret \in 0..(KYBER_Q - 1)
        /\ call.ret % KYBER_Q = call.detail.a % KYBER_Q

\* montgomery_reduce(a) is a * 2^-16 modulo Q: r * 2^16 = a modulo Q
MontgomeryIsReduction ==
    call.op = "montgomery_reduce" =>
        (call.ret * (65536 % KYBER_Q)) % KYBER_Q = call.detail.a % KYBER_Q

\* the value montgomery_reduce returns is the one it computed
MontgomeryFits ==
    call.op = "montgomery_reduce" => call.ret = call.detail.wide

\* C23: barrett_reduce(a) is congruent to a modulo Q and lies in [0, Q) for
\* every 16-bit a; montgomery_reduce(a) is congruent to a * 2^-16 modulo Q
\* and fits uint16_t without truncation for every product a of two
\* canonical coefficients.
C23_ReductionsCorrect ==
    /\ BarrettIsReduction
    /\ MontgomeryIsReduction
    /\ MontgomeryFits

\* const int KYBER_ETA1
KYBER_ETA1 == 2

\* a coefficient in canonical form
Canonical(x) == x \in 0..(KYBER_Q - 1)

\* poly_uniform(poly, seed, nonce): poly[i] = (seed[i % 32] + nonce) % KYBER_Q
poly_uniform(seed, nonce) ==
    Tab(NCoeffs, LAMBDA i : (At(seed, i % SeedLen) + nonce) % KYBER_Q)

\* popcount(x) for x below 256: the first three lines of the code act on
\* the low byte, x + (x >> 8) and x + (x >> 16) add nothing
popcount(x) ==
    Let(x - And8(x \div 2, 85), LAMBDA x1 :
    Let(And8(x1, 51) + And8(x1 \div 4, 51), LAMBDA x2 :
        And8(And8(x2 + (x2 \div 16), 15), 63)))

\* bytes of buf in poly_noise_eta1: KYBER_ETA1 * KYBER_N / 4
NoiseBufLen == (KYBER_ETA1 * NCoeffs + 3) \div 4

\* poly_noise_eta1(poly, seed, nonce): coefficient 8 i + j is made of the
\* j-th group of four bits of buf[4 i .. 4 i + 3], which is group k % 2 of
\* byte k / 2 for coefficient k; the int difference of the two popcounts is
\* converted to uint16_t
poly_noise_eta1(seed, nonce) ==
    Let(shake128(NoiseBufLen, seed, nonce), LAMBDA buf :
        Tab(NCoeffs, LAMBDA k :
            Let((At(buf, k \div 2) \div 16^(k % 2)) % 16, LAMBDA a :
                (popcount(And8(a, 5)) - popcount(And8(a, 10))) % 65536)))

\* poly_ntt(poly): the body is empty, poly holds what it held
poly_ntt(poly) == poly

\* poly_zero(poly)
poly_zero == Fill(NCoeffs, 0)

\* poly_multiply_add(result, a, b): result[i] += montgomery_reduce(a[i] * b[i])
\* on uint16_t
poly_multiply_add(result, a, b) ==
    Tab(NCoeffs, LAMBDA i :
        (At(result, i) + montgomery_reduce(At(a, i) * At(b, i))) % 65536)

\* poly_add(result, b): result[i] = barrett_reduce(result[i] + b[i]), the
\* int sum converted to the uint16_t parameter
poly_add(result, b) ==
    Tab(NCoeffs, LAMBDA i : barrett_reduce((At(result, i) + At(b, i)) % 65536))

\* poly_reduce(poly): poly[i] = barrett_reduce(poly[i])
poly_reduce(poly) == Tab(NCoeffs, LAMBDA i : barrett_reduce(At(poly, i)))

\* t[i] after the j loop of kyber_keypair has run for j = 0 .. n - 1
RECURSIVE MultiplyAddRow(_, _, _, _)
MultiplyAddRow(A, s, i, n) ==
    IF n = 0 THEN poly_zero
    ELSE poly_multiply_add(MultiplyAddRow(A, s, i, n - 1), At(At(A, i), n - 1),
                           At(s, n - 1))

\* the polynomials of kyber_keypair for the 32 bytes seed drawn from
\* secure_rng, as each operation leaves them: A, s and e as sampled and
\* after poly_ntt, each t[i] after the j loop, after poly_add and after
\* poly_reduce
KeypairPolys(seed) ==
    Let2(shake128(SeedLen, seed, 0), shake128(SeedLen, seed, 1),
         LAMBDA public_seed, noise_seed :
    Let3(Tab(KYBER_K, LAMBDA i : Tab(KYBER_K, LAMBDA j :
             poly_uniform(public_seed, i * 256 + j))),
         Tab(KYBER_K, LAMBDA i : poly_noise_eta1(noise_seed, i)),
         Tab(KYBER_K, LAMBDA i : poly_noise_eta1(noise_seed, KYBER_K + i)),
         LAMBDA A, s0, e0 :
    Let2(Tab(KYBER_K, LAMBDA i : poly_ntt(At(s0, i))),
         Tab(KYBER_K, LAMBDA i : poly_ntt(At(e0, i))),
         LAMBDA s, e :
    Let(Tab(KYBER_K, LAMBDA i : MultiplyAddRow(A, s, i, KYBER_K)), LAMBDA t0 :
    Let(Tab(KYBER_K, LAMBDA i : poly_add(At(t0, i), At(e, i))), LAMBDA t1 :
        [poly_uniform |-> A, poly_noise_eta1 |-> s0 \o e0, poly_ntt |-> s \o e,
         poly_multiply_add |-> t0, poly_add |-> t1,
         t |-> Tab(KYBER_K, LAMBDA i : poly_reduce(At(t1, i)))])))))

\* the bytes secure_rng() & 0xFF fills seed with in this run: one value
SeedBytes == Byte

\* the polynomial arithmetic of one kyber_keypair call
kyberKeypairPolys ==
    /\ call = NoCall
    /\ \E r \in SeedBytes :
         call' = Call("kyber_keypair", 0, TRUE, TRUE, "clock",
                      [seed |-> Fill(SeedLen, r), polys |-> KeypairPolys(Fill(SeedLen, r))])
    /\ UNCHANGED <<proc, urandom, ncalls, crypto_instance, kem, dsa, frame,
                   side_channel_protection, thread, hostVars>>

\* coefficients of the operands the transform is applied to
NttCoeffs == {0, 1, KYBER_Q - 1}

\* coefficient k of a * b in Z_q[X] / (X^n + 1), n = NCoeffs, summed from
\* index i of a on: X^n = -1
RECURSIVE RingMulCoeff(_, _, _, _)
RingMulCoeff(a, b, k, i) ==
    IF i = NCoeffs THEN 0
    ELSE (IF i <= k THEN At(a, i) * At(b, k - i)
          ELSE KYBER_Q * KYBER_Q - At(a, i) * At(b, k - i + NCoeffs))
         + RingMulCoeff(a, b, k, i + 1)

\* a * b in the ring of the KEM
RingMul(a, b) == Tab(NCoeffs, LAMBDA k : RingMulCoeff(a, b, k, 0) % KYBER_Q)

\* the coefficient-wise product modulo Q
PointwiseMul(a, b) == Tab(NCoeffs, LAMBDA i : (At(a, i) * At(b, i)) % KYBER_Q)

\* poly_ntt applied to two polynomials and to their product in the ring
polyNtt ==
    /\ call = NoCall
    /\ \E a \in [1..NCoeffs -> NttCoeffs], b \in [1..NCoeffs -> NttCoeffs] :
         call' = Call("poly_ntt", "void", TRUE, TRUE, "none",
                      [a |-> a, b |-> b, ntt_a |-> poly_ntt(a), ntt_b |-> poly_ntt(b),
                       ntt_ab |-> poly_ntt(RingMul(a, b))])
    /\ UNCHANGED <<proc, urandom, ncalls, crypto_instance, kem, dsa, frame,
                   side_channel_protection, thread, hostVars>>

NextPoly == kyberKeypairPolys \/ polyNtt

SpecPoly == InitReadable /\ [][NextPoly]_vars

\* every coefficient of every polynomial of a sequence or matrix is canonical
AllCanonical(ps) ==
    \A i \in 1..Len(ps) : \A k \in 1..Len(ps[i]) : Canonical(ps[i][k])

\* the public vector t at the end of kyber_keypair is canonical
PublicVectorCanonical ==
    call.op = "kyber_keypair" => AllCanonical(call.detail.polys.t)

\* C22: after each polynomial operation of kyber_keypair (poly_uniform,
\* poly_noise_eta1, poly_multiply_add, poly_add, poly_reduce), and for the
\* public vector t at its end, every coefficient lies in [0, Q).
C22_CoefficientsCanonical ==
    call.op = "kyber_keypair" =>
        LET p == call.detail.polys IN
        /\ \A i \in 1..KYBER_K : AllCanonical(p.poly_uniform[i])
        /\ AllCanonical(p.poly_noise_eta1)
        /\ AllCanonical(p.poly_multiply_add)
        /\ AllCanonical(p.poly_add)
        /\ AllCanonical(p.t)

\* C24: poly_ntt is the transform of the KEM ring: the coefficient-wise
\* product of the transforms of a and b is the transform of the product of
\* a and b in Z_q[X] / (X^n + 1), for all polynomials a and b.
C24_TransformIsRingHomomorphism ==
    call.op = "poly_ntt" =>
        PointwiseMul(call.detail.ntt_a, call.detail.ntt_b) = call.detail.ntt_ab

\* the detector state d is Initialized
Initialized(d) == d.protected_region # nullptr

\* C25: the tamper detector has the states Uninitialized and Initialized.
\* nativeInitializeRegion returns true only from Uninitialized, and does so
\* whenever the allocation succeeds; called in Initialized it returns false
\* and leaves the region and the stored hash as they were.
\* nativeCleanupRegion from either state leaves the detector Uninitialized,
\* the region freed if there was one and the stored hash all zero, so that
\* nativeCheckRegionIntegrity returns false and a new nativeInitializeRegion
\* is not refused.
C25_DetectorStateMachine ==
    /\ call.op = "nativeInitializeRegion" =>
         /\ call.ret = "JNI_TRUE" =>
              ~Initialized(call.detail.before) /\ Initialized(detector)
         /\ Initialized(call.detail.before) =>
              call.ret = "JNI_FALSE" /\ detector = call.detail.before
         /\ (~Initialized(call.detail.before) /\ call.detail.malloc_ok) =>
              call.ret = "JNI_TRUE"
    /\ call.op = "nativeCleanupRegion" =>
         /\ ~Initialized(detector)
         /\ detector.initial_hash = Fill(MLen(SHA256_DIGEST_LENGTH), 0)
         /\ Initialized(call.detail.before) =>
              \E k \in 1..Len(call.detail.steps) : call.detail.steps[k] = "free region"
         /\ CheckRegionIntegrity(detector) = "JNI_FALSE"
         /\ ~AlreadyInitialized(detector)
    /\ (call.op = "nativeCheckRegionIntegrity" /\ ~Initialized(detector)) =>
         call.ret = "JNI_FALSE"

\* nativeInitializeRegion has been called on an initialised detector whose
\* stored hash is not zero, with an allocation that would succeed
C25_Witness ==
    /\ call.op = "nativeInitializeRegion"
    /\ Initialized(call.detail.before)
    /\ call.detail.malloc_ok
    /\ call.detail.before.initial_hash # Fill(MLen(SHA256_DIGEST_LENGTH), 0)
    /\ call.ret = "JNI_FALSE"

(***************************************************************************)
(* The two initialize entry points called from several threads             *)
(* (ConstantTimeCrypto.cpp:646-657,                                        *)
(* AdvancedSideChannelProtection.cpp:431-442): the test of the global      *)
(* pointer and the assignment of the new object are separate accesses,     *)
(* and no lock is held between them.                                       *)
(***************************************************************************)
\* the global pointers
Globals == {"crypto_instance", "side_channel_protection"}

\* what global g holds
GlobalValue(g) == IF g = "crypto_instance" THEN crypto_instance ELSE side_channel_protection

\* thread t is inside the initialize of some global, at position pc
InInitialize(t, pc) == thread[t].op \in Globals /\ thread[t].pc = pc

\* return 0 of the initialize thread t is in
initializeReturn(t) ==
    /\ thread' = [thread EXCEPT ![t] = [IdleThread EXCEPT !.ret = "0"]]
    /\ call' = Call("initialize", "0", TRUE, FALSE, "none",
                    [global |-> thread[t].op, thread |-> t])

\* thread t calls the initialize of global g
initializeEnter(t, g) ==
    /\ thread[t].op = "none"
    /\ ncalls < MaxCalls
    /\ ncalls' = ncalls + 1
    /\ thread' = [thread EXCEPT ![t] = [op |-> g, pc |-> 0, tmp |-> 0, ret |-> "pending"]]
    /\ UNCHANGED <<proc, urandom, crypto_instance, kem, dsa, call, frame,
                   side_channel_protection, hostVars>>

\* if (g == nullptr): the pointer is read; the call returns if it is set
initializeTest(t) ==
    /\ InInitialize(t, 0)
    /\ IF GlobalValue(thread[t].op) = nullptr
       THEN thread' = [thread EXCEPT ![t].pc = 1] /\ UNCHANGED call
       ELSE initializeReturn(t)
    /\ UNCHANGED <<proc, urandom, ncalls, crypto_instance, kem, dsa, frame,
                   side_channel_protection, hostVars>>

\* g = new T(): an object is constructed and its address stored in g; the
\* object g pointed to until then is referred to by nothing
initializeStore(t) ==
    /\ InInitialize(t, 1)
    /\ \E seed \in NoiseVals :
         /\ crypto_instance' = IF thread[t].op = "crypto_instance"
                               THEN ConstantTimeCrypto ELSE crypto_instance
         /\ side_channel_protection' = IF thread[t].op = "side_channel_protection"
                                       THEN AdvancedSideChannelProtection(seed)
                                       ELSE side_channel_protection
    /\ leaked' = IF GlobalValue(thread[t].op) = nullptr THEN leaked
                 ELSE leaked \cup {[global |-> thread[t].op,
                                    object |-> GlobalValue(thread[t].op),
                                    replaced_by |-> t]}
    /\ initializeReturn(t)
    /\ UNCHANGED <<proc, urandom, ncalls, kem, dsa, frame, heap, detector>>

NextInit ==
    \E t \in Threads :
        \/ \E g \in Globals : initializeEnter(t, g)
        \/ initializeTest(t)
        \/ initializeStore(t)

SpecInit == InitReadable /\ [][NextInit]_vars

\* once an initialize call has returned, its global pointer is set
InitializedAfterReturn ==
    (call.op = "initialize" /\ call.detail # <<>>) =>
        GlobalValue(call.detail.global) # nullptr

\* C26: whatever the interleaving of initialize calls from several threads,
\* one instance is constructed for each global pointer: once a call has
\* returned the pointer refers to an instance, and no instance that was
\* constructed is replaced by another and left unreferenced.
C26_InitializedOnce ==
    /\ InitializedAfterReturn
    /\ leaked = {}

(***************************************************************************)
(* Properties of the entry points before initialize, and of the local      *)
(* buffers of the crypto core                                              *)
(***************************************************************************)
\* the entry points of ConstantTimeCrypto.cpp that work on crypto_instance
InstanceOps == {"kyberKeypair", "kyberEncaps", "kyberDecaps",
                "dilithiumKeypair", "dilithiumSign", "dilithiumVerify"}

\* the entry points of AdvancedSideChannelProtection.cpp that work on
\* side_channel_protection
WrapperOps == {"protectedCryptoOperation", "protectedMemcmp"}

\* the caller's arrays are as they were when the process started
NoKeyMaterial ==
    /\ kem = [pk |-> <<>>, sk |-> <<>>, ct |-> <<>>, ss |-> <<>>]
    /\ dsa = [pk |-> <<>>, sk |-> <<>>, m |-> <<>>, sig |-> <<>>]
    /\ frame = IdleFrame

\* C27: a KEM, signature or countermeasure entry point called while its
\* global instance has not been created returns null or false, no
\* cryptographic routine has run, and nothing the caller holds has changed.
C27_UninitializedCallsFail ==
    /\ (call.op \in InstanceOps /\ crypto_instance = nullptr) =>
         /\ call.ret \in FailureReturns
         /\ ~call.crypto_ran
         /\ NoKeyMaterial
    /\ (call.op \in WrapperOps /\ side_channel_protection = nullptr) =>
         /\ call.ret \in FailureReturns
         /\ ~call.crypto_ran

\* one past the highest index of buf that the loop of poly_uniform_gamma1
\* reads: buf[4 * i + j] for i < DILITHIUM_N, j < 4
XofReadEnd == 4 * NCoeffs

\* C28: the copies of kyber_encaps and kyber_decaps into the 64-byte buf
\* end within buf, and every index of the 640-byte buf that
\* poly_uniform_gamma1 reads is below its length.
C28_LocalBuffersInBounds ==
    /\ (call.op \in {"kyberEncaps", "kyberDecaps"} /\ call.crypto_ran) =>
         SsHashLen <= HashBufLen
    /\ frame.pc = "loop" => XofReadEnd <= XofBufLen

(***************************************************************************)
(* anti_forensics_wipe (SecureMemoryWiper.cpp:167-213).  The blocks of one *)
(* call are mapped and unmapped inside it; block i, when its allocation    *)
(* succeeds, is at address i + 1, and 0 is the null pointer.               *)
(***************************************************************************)
\* the most blocks a caller asks for: sizeMB
MaxBlocks == 4

\* what an entry of memory_blocks that was never assigned is read as: the
\* array comes from malloc, so the value is indeterminate - null, the
\* address of the first block, or an address of no block
GarbagePtrs == {0, 1, MaxBlocks + 1}

\* one operation of the wipe on entry i of memory_blocks, which held ptr
BlockOp(op, i, ptr) == [op |-> op, i |-> i, ptr |-> ptr]

\* memory_blocks after phase 1, in which the allocations of the blocks
\* below failed succeed and that of block failed returns null (none fails
\* for failed = blocks): the loop breaks there, the later entries are as
\* malloc left them, g[i]
BlockTable(blocks, failed, g) ==
    Tab(blocks, LAMBDA i : IF i < failed THEN i + 1 ELSE IF i = failed THEN 0 ELSE g[i])

\* phase 1 from block i on: allocate_secure_memory, then three pattern fills
RECURSIVE AllocatePhase(_, _, _)
AllocatePhase(blocks, failed, i) ==
    IF ~(i < blocks) THEN <<>>
    ELSE IF i = failed THEN <<BlockOp("allocate", i, 0)>>
    ELSE <<BlockOp("allocate", i, i + 1)>>
         \o [pattern \in 1..3 |-> BlockOp("memset", i, i + 1)]
         \o AllocatePhase(blocks, failed, i + 1)

\* a loop over all entries that applies op to those that are not null:
\* for (i < blocks) if (memory_blocks[i]) op(memory_blocks[i], BLOCK_SIZE)
RECURSIVE NonNullPhase(_, _, _)
NonNullPhase(table, op, i) ==
    IF ~(i < Len(table)) THEN <<>>
    ELSE (IF At(table, i) # 0 THEN <<BlockOp(op, i, At(table, i))>> ELSE <<>>)
         \o NonNullPhase(table, op, i + 1)

\* the operations of anti_forensics_wipe once the tracking array is there
anti_forensics_wipe(blocks, failed, g) ==
    Let(BlockTable(blocks, failed, g), LAMBDA memory_blocks :
        AllocatePhase(blocks, failed, 0)
        \o NonNullPhase(memory_blocks, "secure_random_fill", 0)
        \o NonNullPhase(memory_blocks, "free_secure_memory", 0))

\* the pointers allocate_secure_memory returned in a trace
AllocatedIn(trace) ==
    {trace[k].ptr : k \in {j \in 1..Len(trace) : trace[j].op = "allocate"}} \ {0}

\* a trace hands to memset, secure_random_fill or free_secure_memory a
\* pointer that is no block's, or frees a block a second time
TouchesInvalid(trace) ==
    \E k \in 1..Len(trace) :
        /\ trace[k].op # "allocate"
        /\ \/ trace[k].ptr \notin AllocatedIn(trace)
           \/ \E j \in 1..(k - 1) :
                trace[j].op = "free_secure_memory" /\ trace[j].ptr = trace[k].ptr

\* Java_com_ghostbridgeapp_SecureMemoryModule_nativeAntiForensicsWipe(sizeMB):
\* blocks = sizeMB; false if the tracking array cannot be allocated; an
\* access through an invalid pointer ends the process or goes unnoticed
nativeAntiForensicsWipe ==
    /\ call = NoCall
    /\ \E blocks \in 0..MaxBlocks, malloc_ok \in BOOLEAN :
         IF ~malloc_ok
         THEN /\ call' = Call("nativeAntiForensicsWipe", "JNI_FALSE", TRUE, FALSE, "none",
                              [blocks |-> blocks, failed |-> blocks, trace |-> <<>>])
              /\ UNCHANGED proc
         ELSE \E failed \in 0..blocks, g \in [0..(MaxBlocks - 1) -> GarbagePtrs],
                 overrun \in OverrunOutcomes :
                \E trace \in {anti_forensics_wipe(blocks, failed, g)} :
                  /\ \A i \in 0..(MaxBlocks - 1) : (i <= failed \/ i >= blocks) => g[i] = 0
                  /\ (overrun = "aborts") => TouchesInvalid(trace)
                  /\ proc' = IF overrun = "aborts" THEN "aborted" ELSE proc
                  /\ call' = Call("nativeAntiForensicsWipe",
                                  IF overrun = "aborts" THEN "none" ELSE "JNI_TRUE",
                                  TRUE, FALSE, IF urandom THEN "urandom" ELSE "rand",
                                  [blocks |-> blocks, failed |-> failed, trace |-> trace])
    /\ UNCHANGED <<urandom, ncalls, crypto_instance, kem, dsa, frame,
                   side_channel_protection, thread, hostVars>>

NextWipe == nativeAntiForensicsWipe

SpecWipe == InitReadable /\ [][NextWipe]_vars

\* every block that was allocated is filled with random bytes once and
\* freed once
AllocatedBlocksFreedOnce ==
    call.op = "nativeAntiForensicsWipe" =>
        \A p \in AllocatedIn(call.detail.trace) :
            \A op \in {"secure_random_fill", "free_secure_memory"} :
                Cardinality({k \in 1..Len(call.detail.trace) :
                               call.detail.trace[k].op = op
                               /\ call.detail.trace[k].ptr = p}) = 1

\* C29: anti_forensics_wipe fills, wipes and frees only blocks it allocated
\* in its first phase: when the allocation of block i fails, no entry of
\* index i or more is passed to secure_random_fill or free_secure_memory,
\* and every block that was allocated is wiped and freed exactly once.
C29_WipeTouchesOwnBlocksOnly ==
    call.op = "nativeAntiForensicsWipe" =>
        /\ \A k \in 1..Len(call.detail.trace) :
             call.detail.trace[k].op # "allocate" =>
                /\ call.detail.trace[k].ptr \in AllocatedIn(call.detail.trace)
                /\ call.detail.trace[k].i < call.detail.failed
        /\ AllocatedBlocksFreedOnce

(***************************************************************************)
(* The output of protected_crypto_operation                                *)
(* (AdvancedSideChannelProtection.cpp:334-373), computed on an object      *)
(* whose members the hooks and the lookup change as they go.               *)
(***************************************************************************)
\* a lookup that mixes the noise accumulator into what it returns
white_box_aes_sbox_noisy(obj, input, key_material) ==
    Let(RunUses([obj |-> obj, tmp |-> 0], white_box_aes_sbox, 0,
                Len(white_box_aes_sbox)).obj, LAMBDA obj2 :
        [result |-> Xor64(white_box_aes_sbox_value(input, key_material).result,
                          Word64(obj2.cache_noise_accumulator)),
         obj |-> obj2])

\* white_box_aes_sbox(input, key_material) called on obj: the value it
\* returns and the object after it
white_box_aes_sbox_on(obj, input, key_material) ==
    [result |-> white_box_aes_sbox_value(input, key_material).result,
     obj |-> RunUses([obj |-> obj, tmp |-> 0], white_box_aes_sbox, 0,
                     Len(white_box_aes_sbox)).obj]

\* the hooks protected_crypto_operation runs before its loop
PreOperation ==
    inject_em_noise \o protect_against_cache_attacks \o mitigate_prime_probe_attacks
        \o mitigate_speculative_execution \o balance_power_consumption

\* the loop of protected_crypto_operation from index i on:
\* output[i] = (uint8_t)(sbox_result ^ (key_material >> (i % 64))), and the
\* hooks of every eighth pass
RECURSIVE OutputLoop(_, _, _, _, _)
OutputLoop(obj, input, key, i, output) ==
    IF ~(i < Len(input)) THEN [output |-> output, obj |-> obj]
    ELSE Let(KeyMaterial(At(key, i % Len(key))), LAMBDA key_material :
         Let(white_box_aes_sbox_on(obj, At(input, i), key_material), LAMBDA r :
         Let2(At(Xor64(r.result, Shr64(key_material, i % 64)), 0),
              IF i % 8 = 0
              THEN RunUses([obj |-> r.obj, tmp |-> 0],
                           inject_em_noise \o balance_power_consumption, 0,
                           Len(inject_em_noise \o balance_power_consumption)).obj
              ELSE r.obj,
              LAMBDA byte, obj2 :
                  OutputLoop(obj2, input, key, i + 1, Append(output, byte)))))

\* protected_crypto_operation(input, input_len, output, input_len, key,
\* key_len) on obj: the bytes of output and the returned status
protected_crypto_operation_output(obj, input, key) ==
    Let(RunUses([obj |-> obj, tmp |-> 0], PreOperation, 0, Len(PreOperation)).obj,
        LAMBDA obj1 :
        [output |-> OutputLoop(obj1, input, key, 0, <<>>).output, status |-> 0])

\* states of the noise context: the generator, the decoy memory, the
\* accumulator
NoiseContexts ==
    {[ptr |-> "object", noise_rng |-> r, decoy_memory |-> d,
      cache_noise_accumulator |-> a] : r, d, a \in {0, NoiseMod - 1}}

\* protectedCryptoOperation(input, key) called on the object as it is and,
\* with the same arrays, on the object in another state; the process goes
\* on from the first run
protectedCryptoOperationTwice ==
    /\ call = NoCall
    /\ side_channel_protection # nullptr
    /\ \E input \in ByteArrays, key \in ByteArrays, other \in NoiseContexts :
         /\ Len(key) > 0 \/ Len(input) = 0
         /\ \E run1 \in {protected_crypto_operation_output(side_channel_protection,
                                                           input, key)},
               run2 \in {protected_crypto_operation_output(other, input, key)} :
              call' = Call("protectedCryptoOperation",
                           IF run1.status = 0 THEN "array" ELSE "nullptr",
                           TRUE, TRUE, "none",
                           [input |-> input, key |-> key,
                            context1 |-> side_channel_protection, context2 |-> other,
                            output1 |-> run1, output2 |-> run2])
    /\ side_channel_protection' =
         AfterRoutine(side_channel_protection, "protectedCryptoOperation")
    /\ UNCHANGED <<proc, urandom, ncalls, crypto_instance, kem, dsa, frame, thread, hostVars>>

NextOutput == AdvancedSideChannelProtection_initialize \/ protectedCryptoOperationTwice

SpecOutput == InitReadable /\ [][NextOutput]_vars

====
